---- MODULE Spec2Model ----
(***************************************************************************)
(* Decision Version Graph & Alignment Engine (ritikakumar0204/cos-ai).     *)
(*                                                                         *)
(* The state is one project's directed graph (models/org_memory._GRAPHS)   *)
(* and the meeting review states (api/project_endpoints.MEETING_STATES).   *)
(* A networkx DiGraph keeps one edge per ordered node pair and iterates     *)
(* adjacency in insertion order; node ids are namespaced by type           *)
(* ("decision:", "decision_version:", "stakeholder:"), so each edge type   *)
(* lives on its own pair of node kinds and is modelled as its own field.   *)
(*                                                                         *)
(* Version ids are the integers 1, 2, 3, standing for the strings "v1" <   *)
(* "v2" < "v3" in the order Python's sorted() gives them.                  *)
(***************************************************************************)
EXTENDS Integers, Sequences, FiniteSets, TLC

\* ------------------------------------------------------------------ bounds
MaxStoreOps == 6
MaxAgentOps == 3
MaxProjectOps == 3
MaxGraphOps == 5
MaxConcurrentCommits == 3
MaxReports == 2
MaxConcurrentReviews == 4

DecisionIds == {"d1", "d2"}
VersionIds == {1, 2, 3}
StakeholderIds == {"s1", "s2", "s3"}
ThreadIds == {"t1", "t2"}
MeetingIds == {"m1", "m2", "m3"}

Absent == "absent"
NoVersion == 0

\* ----------------------------------------------------------- program data
ALLOWED_ROLES == {"Owner", "Contributor", "Informed", "Affected", "Observer"}

\* Roles a caller may supply; "Guest" is outside the allowed set.
RoleInputs == {"Owner", "Observer", "Guest"}

\* The roles given in direct calls: one for each kind of link, and one
\* outside the fixed set.
GraphRoleInputs == {"Owner", "Informed", "Guest"}

\* PROJECT_STAKEHOLDERS of the modelled project: the known stakeholders and
\* their catalogued roles.  "s3" is a person the project does not list.
PROJECT_STAKEHOLDERS == [s \in {"s1", "s2"} |->
                           IF s = "s1" THEN "Owner" ELSE "Contributor"]
ProjectStakeholderIds == DOMAIN PROJECT_STAKEHOLDERS

\* MANAGER_REPORTS of the modelled project: manager -> direct reports.
MANAGER_REPORTS == [s \in StakeholderIds |->
                      IF s = "s1" THEN <<"s2">> ELSE <<>>]

Person(s, role) == [stakeholder_id |-> s, role |-> role]
Entry(d, v) == [decision_id |-> d, version_id |-> v]

\* MEETING_CATALOG, participants: who attended each catalogued meeting, with
\* the role the catalogue gives them (it may differ from the project's, and
\* m3 names a role outside ALLOWED_ROLES for its second person).
MEETING_PARTICIPANTS ==
    [m \in MeetingIds |->
        CASE m = "m1" -> <<Person("s1", "Owner"), Person("s2", "Contributor")>>
          [] m = "m2" -> <<Person("s2", "Observer"), Person("s3", "Informed")>>
          [] OTHER    -> <<Person("s3", "Observer"), Person("s1", "Guest")>>]

\* Participant lists of a process_meeting_update request.
ParticipantLists == {MEETING_PARTICIPANTS[m] : m \in MeetingIds}

\* Stakeholder lists of a stamp_decision_and_route request.
StampLists == {<<>>, MEETING_PARTICIPANTS["m3"]}

\* MEETING_CATALOG, decisions: a structured decision list has one entry, or
\* two entries: the second carries the next version id, or the same version
\* id under the other decision.
Entries == {Entry(d, v) : d \in DecisionIds, v \in VersionIds}
DecisionLists ==
    {<<e>> : e \in Entries}
    \union {<<p[1], p[2]>> : p \in {q \in Entries \X Entries :
               /\ q[1].decision_id = "d1"
               /\ \/ q[2].version_id = q[1].version_id + 1
                  \/ /\ q[2].version_id = q[1].version_id
                     /\ q[2].decision_id = "d2"}}

VARIABLES
    graph,          \* the project graph (see EmptyGraph for its fields)
    meetingState,   \* MEETING_STATES[project]: meeting id -> review state
    last,           \* the last request and its outcome (a history variable)
    ops,            \* number of requests served so far
    threads,        \* per worker thread: where it is in a commit, its locals
    observed        \* what the last concurrent read saw

vars == <<graph, meetingState, last, ops, threads, observed>>

\* ------------------------------------------------------------ sequences
Range(s) == {s[i] : i \in DOMAIN s}

Min(S) == CHOOSE x \in S : \A y \in S : x <= y

RECURSIVE Sorted(_)
\* Python's sorted() on a set of version ids.
Sorted(S) == IF S = {} THEN <<>> ELSE <<Min(S)>> \o Sorted(S \ {Min(S)})

IsSorted(s) == \A i, j \in DOMAIN s : i < j => s[i] < s[j]

\* -------------------------------------------------------------- the graph
\* init_graph / get_project_graph: an empty DiGraph.
\*   decisions[d]     : Absent, or whether the node carries project_id
\*   versions[v]      : Absent, or the node's decision_id attribute
\*   has_version[d]   : the has_version out-edges of d, in adjacency order
\*   supersedes       : <<new, old>> edges
\*   stakeholders[s]  : Absent, or the node's role attribute
\*   referenced_by    : <<version, stakeholder>> edges
\*   decision_link    : type of the edge stakeholder -> decision, or "none"
\*   version_link     : type of the edge stakeholder -> version, or "none"
EmptyGraph ==
    [decisions     |-> [d \in DecisionIds |-> Absent],
     versions      |-> [v \in VersionIds |-> Absent],
     has_version   |-> [d \in DecisionIds |-> <<>>],
     supersedes    |-> {},
     stakeholders  |-> [s \in StakeholderIds |-> Absent],
     referenced_by |-> {},
     decision_link |-> [p \in StakeholderIds \X DecisionIds |-> "none"],
     version_link  |-> [p \in StakeholderIds \X VersionIds |-> "none"]]

\* ------------------------------------------------------ GraphStore writes
\* Every mutator returns [ok, g]: ok = FALSE models the raised ValueError,
\* and g is the graph as the call leaves it.
Ok(g) == [ok |-> TRUE, g |-> g]
Fail(g) == [ok |-> FALSE, g |-> g]

\* A raised ValueError whose message tells the cause: "... does not exist"
\* (NotFound), "Invalid role ..." (InvalidRole), "Only stakeholders with role
\* ..." (InvalidRoleForEdge).
Raise(g, error) == [ok |-> FALSE, g |-> g, error |-> error]

\* decision_graph.add_decision: add_node keeps attributes it is not given,
\* so an existing node keeps its project_id.
add_decision(g, d) ==
    [g EXCEPT !.decisions[d] = IF @ = Absent THEN "untagged" ELSE @]

\* add_decision_version writing the version node before it looks for the
\* decision.
add_decision_version_node_first(g, v, d) ==
    IF g.decisions[d] = Absent
    THEN Raise([g EXCEPT !.versions[v] = d], "NotFound")
    ELSE Ok([g EXCEPT !.versions[v] = d,
                      !.has_version[d] =
                          IF v \in Range(@) THEN @ ELSE Append(@, v)])

\* decision_graph.add_decision_version
add_decision_version(g, v, d) ==
    IF g.decisions[d] = Absent THEN Raise(g, "NotFound")
    ELSE Ok([g EXCEPT !.versions[v] = d,
                      !.has_version[d] =
                          IF v \in Range(@) THEN @ ELSE Append(@, v)])

\* decision_graph.link_supersedes
link_supersedes(g, new, prev) ==
    IF g.versions[new] = Absent \/ g.versions[prev] = Absent
    THEN Raise(g, "NotFound")
    ELSE Ok([g EXCEPT !.supersedes = @ \union {<<new, prev>>}])

\* stakeholders._require_valid_role
require_valid_role(role) == role \in ALLOWED_ROLES

\* stakeholders.add_stakeholder
add_stakeholder(g, s, role) ==
    IF ~require_valid_role(role) THEN Raise(g, "InvalidRole")
    ELSE Ok([g EXCEPT !.stakeholders[s] = role])

\* decision_graph.add_stakeholder: the node is written with the role as
\* given, whatever it is.
decision_graph_add_stakeholder(g, s, role) ==
    Ok([g EXCEPT !.stakeholders[s] = role])

\* record_reference refusing an edge that is already there.
record_reference_once(g, v, s) ==
    IF v \notin VersionIds \/ s \notin StakeholderIds
    THEN Raise(g, "NotFound")
    ELSE IF g.versions[v] = Absent \/ g.stakeholders[s] = Absent
    THEN Raise(g, "NotFound")
    ELSE IF <<v, s>> \in g.referenced_by
    THEN Raise(g, "AlreadyExists")
    ELSE Ok([g EXCEPT !.referenced_by = @ \union {<<v, s>>}])

\* decision_graph.record_reference
record_reference(g, v, s) ==
    IF v \notin VersionIds \/ s \notin StakeholderIds
    THEN Raise(g, "NotFound")
    ELSE IF g.versions[v] = Absent \/ g.stakeholders[s] = Absent
    THEN Raise(g, "NotFound")
    ELSE Ok([g EXCEPT !.referenced_by = @ \union {<<v, s>>}])

\* stakeholders.link_stakeholder_to_decision
link_stakeholder_to_decision(g, s, d) ==
    IF g.stakeholders[s] = Absent \/ g.decisions[d] = Absent
    THEN Raise(g, "NotFound")
    ELSE IF ~require_valid_role(g.stakeholders[s])
    THEN Raise(g, "InvalidRole")
    ELSE IF g.stakeholders[s] = "Owner"
         THEN Ok([g EXCEPT !.decision_link[<<s, d>>] = "owns"])
    ELSE IF g.stakeholders[s] = "Contributor"
         THEN Ok([g EXCEPT !.decision_link[<<s, d>>] = "contributes"])
    ELSE Raise(g, "InvalidRoleForEdge")

\* stakeholders.link_stakeholder_to_version
link_stakeholder_to_version(g, s, v) ==
    IF g.stakeholders[s] = Absent \/ g.versions[v] = Absent
    THEN Raise(g, "NotFound")
    ELSE IF ~require_valid_role(g.stakeholders[s])
    THEN Raise(g, "InvalidRole")
    ELSE IF g.stakeholders[s] = "Informed"
         THEN Ok([g EXCEPT !.version_link[<<s, v>>] = "informed_of"])
    ELSE IF g.stakeholders[s] = "Affected"
         THEN Ok([g EXCEPT !.version_link[<<s, v>>] = "affected_by"])
    ELSE Raise(g, "InvalidRoleForEdge")

\* ------------------------------------------------------- VersionResolver
\* The has_version out-edges of d whose target is a decision_version node.
\* (version_resolution.py lines 15-21; the same loop is in
\* project_endpoints._mark_attendance_drift and _versions_for_decision.)
version_nodes_of(g, d) ==
    SelectSeq(g.has_version[d], LAMBDA v : g.versions[v] # Absent)

\* superseded_versions with the edge read backwards: the newer end of a
\* supersedes edge is taken for the superseded one.
superseded_versions_backwards(g, version_nodes) ==
    {new \in Range(version_nodes) :
        \E prev \in Range(version_nodes) : <<new, prev>> \in g.supersedes}

\* The versions of the list that another member of the list points at with a
\* supersedes edge (a self-loop counts: new_version ranges over the whole list).
superseded_versions(g, version_nodes) ==
    {prev \in Range(version_nodes) :
        \E new \in Range(version_nodes) : <<new, prev>> \in g.supersedes}

\* get_latest_decision_version settling a forked history by insertion order:
\* with several candidates it returns the first one.
get_latest_decision_version_first(g, d) ==
    IF d \notin DecisionIds THEN
        [status |-> "NotFound", version |-> NoVersion, count |-> 0]
    ELSE IF g.decisions[d] = Absent THEN
        [status |-> "NotFound", version |-> NoVersion, count |-> 0]
    ELSE
        LET version_nodes == version_nodes_of(g, d)
            superseded == superseded_versions(g, version_nodes)
            latest_versions ==
                SelectSeq(version_nodes, LAMBDA v : v \notin superseded)
        IN  IF version_nodes = <<>> THEN
                [status |-> "NoVersions", version |-> NoVersion, count |-> 0]
            ELSE IF Len(latest_versions) = 0 THEN
                [status |-> "AmbiguousLatest", version |-> NoVersion, count |-> 0]
            ELSE
                [status |-> "ok", version |-> latest_versions[1], count |-> 1]

\* get_latest_decision_version without the "has no versions" branch: an empty
\* version list falls through to the candidate count.
get_latest_decision_version_no_empty_check(g, d) ==
    IF d \notin DecisionIds THEN
        [status |-> "NotFound", version |-> NoVersion, count |-> 0]
    ELSE IF g.decisions[d] = Absent THEN
        [status |-> "NotFound", version |-> NoVersion, count |-> 0]
    ELSE
        LET version_nodes == version_nodes_of(g, d)
            superseded == superseded_versions(g, version_nodes)
            latest_versions ==
                SelectSeq(version_nodes, LAMBDA v : v \notin superseded)
        IN  IF Len(latest_versions) # 1 THEN
                [status |-> "AmbiguousLatest", version |-> NoVersion,
                 count |-> Len(latest_versions)]
            ELSE
                [status |-> "ok", version |-> latest_versions[1], count |-> 1]

\* version_resolution.get_latest_decision_version.  The three ValueErrors are
\* told apart by their message: "does not exist", "has no versions",
\* "has N latest versions; expected exactly 1".
get_latest_decision_version(g, d) ==
    IF d \notin DecisionIds THEN
        [status |-> "NotFound", version |-> NoVersion, count |-> 0]
    ELSE IF g.decisions[d] = Absent THEN
        [status |-> "NotFound", version |-> NoVersion, count |-> 0]
    ELSE
        LET version_nodes == version_nodes_of(g, d)
            superseded == superseded_versions(g, version_nodes)
            latest_versions ==
                SelectSeq(version_nodes, LAMBDA v : v \notin superseded)
        IN  IF version_nodes = <<>> THEN
                [status |-> "NoVersions", version |-> NoVersion, count |-> 0]
            ELSE IF Len(latest_versions) # 1 THEN
                [status |-> "AmbiguousLatest", version |-> NoVersion,
                 count |-> Len(latest_versions)]
            ELSE
                [status |-> "ok", version |-> latest_versions[1], count |-> 1]

\* --------------------------------------------------------- DriftDetector
\* drift_detection.py lines 19-27: the versions DetectDrift walks.
drift_version_nodes(g, d) ==
    SelectSeq(g.has_version[d], LAMBDA v : g.versions[v] = d)

RECURSIVE collect_references(_, _, _)
\* drift_detection.py lines 32-50: per stakeholder, the version ids in the
\* order the versions are met, skipping one that is already in the list.
collect_references(g, version_nodes, acc) ==
    IF version_nodes = <<>> THEN acc
    ELSE LET v == Head(version_nodes)
             next == [s \in StakeholderIds |->
                        IF <<v, s>> \in g.referenced_by
                           /\ g.stakeholders[s] # Absent
                           /\ v \notin Range(acc[s])
                        THEN Append(acc[s], v) ELSE acc[s]]
         IN  collect_references(g, Tail(version_nodes), next)

\* detect_decision_drift reporting drift as soon as one version is referenced.
detect_decision_drift_any_reference(g, d) ==
    IF d \notin DecisionIds \/ g.decisions[d] = Absent THEN
        [drift_detected |-> FALSE, referenced_versions |-> <<>>,
         stakeholder_versions |-> <<>>]
    ELSE
        LET lists == collect_references(g, drift_version_nodes(g, d),
                                        [s \in StakeholderIds |-> <<>>])
            keys == {s \in StakeholderIds : lists[s] # <<>>}
            referenced_versions == UNION {Range(lists[s]) : s \in keys}
            referenced_version_list == Sorted(referenced_versions)
        IN  [drift_detected |-> Len(referenced_version_list) > 0,
             referenced_versions |-> referenced_version_list,
             stakeholder_versions |-> [s \in keys |-> lists[s]]]

\* detect_decision_drift returning referenced_versions in the order the
\* versions are met instead of sorted.
detect_decision_drift_unsorted(g, d) ==
    IF d \notin DecisionIds \/ g.decisions[d] = Absent THEN
        [drift_detected |-> FALSE, referenced_versions |-> <<>>,
         stakeholder_versions |-> <<>>]
    ELSE
        LET lists == collect_references(g, drift_version_nodes(g, d),
                                        [s \in StakeholderIds |-> <<>>])
            keys == {s \in StakeholderIds : lists[s] # <<>>}
            referenced_versions == UNION {Range(lists[s]) : s \in keys}
            referenced_version_list ==
                SelectSeq(drift_version_nodes(g, d),
                          LAMBDA v : v \in referenced_versions)
        IN  [drift_detected |-> Len(referenced_version_list) > 1,
             referenced_versions |-> referenced_version_list,
             stakeholder_versions |-> [s \in keys |-> lists[s]]]

\* detect_decision_drift reporting drift for a decision it does not find.
detect_decision_drift_absent_drifts(g, d) ==
    IF d \notin DecisionIds \/ g.decisions[d] = Absent THEN
        [drift_detected |-> TRUE, referenced_versions |-> <<>>,
         stakeholder_versions |-> <<>>]
    ELSE
        LET lists == collect_references(g, drift_version_nodes(g, d),
                                        [s \in StakeholderIds |-> <<>>])
            keys == {s \in StakeholderIds : lists[s] # <<>>}
            referenced_versions == UNION {Range(lists[s]) : s \in keys}
            referenced_version_list == Sorted(referenced_versions)
        IN  [drift_detected |-> Len(referenced_version_list) > 1,
             referenced_versions |-> referenced_version_list,
             stakeholder_versions |-> [s \in keys |-> lists[s]]]

\* drift_detection.detect_decision_drift.  stakeholder_versions is the dict
\* restricted to the stakeholders that have an entry.
detect_decision_drift(g, d) ==
    IF d \notin DecisionIds \/ g.decisions[d] = Absent THEN
        [drift_detected |-> FALSE, referenced_versions |-> <<>>,
         stakeholder_versions |-> <<>>]
    ELSE
        LET lists == collect_references(g, drift_version_nodes(g, d),
                                        [s \in StakeholderIds |-> <<>>])
            keys == {s \in StakeholderIds : lists[s] # <<>>}
            referenced_versions == UNION {Range(lists[s]) : s \in keys}
            referenced_version_list == Sorted(referenced_versions)
        IN  [drift_detected |-> Len(referenced_version_list) > 1,
             referenced_versions |-> referenced_version_list,
             stakeholder_versions |-> [s \in keys |-> lists[s]]]

\* --------------------------------------------------- ExplanationGenerator
\* Python's sorted() on stakeholder ids: the ids in lexicographic order.
StakeholderOrder == <<"s1", "s2", "s3">>
sorted_ids(S) == SelectSeq(StakeholderOrder, LAMBDA s : s \in S)

\* explanation_generator._stakeholder_role_index, with the "Unknown" default
\* of line 66.
stakeholder_role(g, s) ==
    IF g.stakeholders[s] = Absent THEN "Unknown" ELSE g.stakeholders[s]

\* explanation_generator._format_role_segment: each stakeholder with the
\* sorted versions it references; <<>> stands for None (no segment).
format_role_segment(stakeholder_ids, referenced_versions) ==
    [i \in DOMAIN stakeholder_ids |->
        <<stakeholder_ids[i], Sorted(Range(referenced_versions[stakeholder_ids[i]]))>>]

\* The unresolved branch reporting no drift whatever DetectDrift says.
unresolved_explanation_no_drift(g, d) ==
    [drift_detected |-> FALSE,
     latest_version |-> NoVersion,
     out_of_sync_stakeholders |-> <<>>,
     explanation |-> [kind |-> "unresolved"]]

\* generate_drift_explanation lines 47-55: the latest version did not resolve.
unresolved_explanation(g, d) ==
    [drift_detected |-> detect_decision_drift(g, d).drift_detected,
     latest_version |-> NoVersion,
     out_of_sync_stakeholders |-> <<>>,
     explanation |-> [kind |-> "unresolved"]]

\* The out-of-sync test asking for the latest version and nothing else.
is_out_of_sync_unless_only_latest(latest, versions) == versions # <<latest>>

\* generate_drift_explanation line 67
is_out_of_sync(latest, versions) == latest \notin Range(versions)

\* The segment list that keeps the empty segments as well.
role_segments_keeping_empty(primary_out, primary_aligned, secondary_out, observers_out) ==
    <<[label |-> "Owner/Contributor out-of-sync",
       ids |-> [i \in DOMAIN primary_out |-> primary_out[i][1]],
       versions |-> [i \in DOMAIN primary_out |-> primary_out[i][2]]],
      [label |-> "Owner/Contributor aligned",
       ids |-> primary_aligned, versions |-> <<>>],
      [label |-> "Informed/Affected out-of-sync",
       ids |-> [i \in DOMAIN secondary_out |-> secondary_out[i][1]],
       versions |-> [i \in DOMAIN secondary_out |-> secondary_out[i][2]]],
      [label |-> "Observer references lagging (lower priority)",
       ids |-> observers_out, versions |-> <<>>]>>

\* generate_drift_explanation lines 120-147: role_segments, the segments of
\* the drift sentence in the order they are appended, each one only when it
\* lists somebody.  A segment is its label, the stakeholder ids in the order
\* they are printed and, for the out-of-sync segments, the versions printed
\* after each id (<<>> for a segment that prints ids only).
role_segments(primary_out, primary_aligned, secondary_out, observers_out) ==
    (IF primary_out # <<>>
     THEN <<[label |-> "Owner/Contributor out-of-sync",
             ids |-> [i \in DOMAIN primary_out |-> primary_out[i][1]],
             versions |-> [i \in DOMAIN primary_out |-> primary_out[i][2]]]>>
     ELSE <<>>)
    \o (IF primary_aligned # <<>>
        THEN <<[label |-> "Owner/Contributor aligned",
                ids |-> primary_aligned, versions |-> <<>>]>>
        ELSE <<>>)
    \o (IF secondary_out # <<>>
        THEN <<[label |-> "Informed/Affected out-of-sync",
                ids |-> [i \in DOMAIN secondary_out |-> secondary_out[i][1]],
                versions |-> [i \in DOMAIN secondary_out |-> secondary_out[i][2]]]>>
        ELSE <<>>)
    \o (IF observers_out # <<>>
        THEN <<[label |-> "Observer references lagging (lower priority)",
                ids |-> observers_out, versions |-> <<>>]>>
        ELSE <<>>)

\* generate_drift_explanation lines 57-165: the latest version resolved.  The
\* explanation text is kept as its parts; the created_at clause is left out,
\* and out_of_sync_details (the fallback sentence) is listed by stakeholder id.
resolved_explanation(g, d, latest) ==
    LET stakeholder_versions == detect_decision_drift(g, d).stakeholder_versions
        keys == DOMAIN stakeholder_versions
        out_of_sync == {s \in keys : is_out_of_sync(latest, stakeholder_versions[s])}
        aligned == keys \ out_of_sync
        out_by_role(roles) == {s \in out_of_sync : stakeholder_role(g, s) \in roles}
        aligned_by_role(roles) == {s \in aligned : stakeholder_role(g, s) \in roles}
        drift_detected == out_of_sync # {}
        primary_out == format_role_segment(
                           sorted_ids(out_by_role({"Owner", "Contributor"})),
                           stakeholder_versions)
        secondary_out == format_role_segment(
                             sorted_ids(out_by_role({"Informed", "Affected"})),
                             stakeholder_versions)
        observers_out == sorted_ids(out_by_role({"Observer"}))
        primary_aligned == sorted_ids(aligned_by_role({"Owner", "Contributor"}))
        secondary_aligned == sorted_ids(aligned_by_role({"Informed", "Affected"}))
        segments == role_segments(primary_out, primary_aligned,
                                  secondary_out, observers_out)
        no_segment == segments = <<>>
    IN  [drift_detected |-> drift_detected,
         latest_version |-> latest,
         out_of_sync_stakeholders |-> sorted_ids(out_of_sync),
         explanation |->
            IF ~drift_detected THEN
                [kind |-> "aligned", latest |-> latest,
                 critical_aligned |-> primary_aligned,
                 secondary_aligned |-> secondary_aligned]
            ELSE
                [kind |-> "drift", latest |-> latest,
                 primary_out |-> primary_out,
                 primary_aligned |-> primary_aligned,
                 secondary_out |-> secondary_out,
                 observers_out |-> observers_out,
                 role_segments |-> segments,
                 out_of_sync_details |->
                    IF no_segment
                    THEN format_role_segment(sorted_ids(out_of_sync),
                                             stakeholder_versions)
                    ELSE <<>>]]

\* explanation_generator.generate_drift_explanation
generate_drift_explanation(g, d) ==
    LET r == get_latest_decision_version(g, d)
    IN  IF r.status # "ok" THEN unresolved_explanation(g, d)
        ELSE resolved_explanation(g, d, r.version)

\* -------------------------------------------------------- RoutingComputer
\* stakeholders._stakeholders_for_edge: the stakeholders with an edge of
\* edge_type into target (links = the edges into that kind of node) whose
\* current role is one of expected_roles.
stakeholders_for_edge(g, links, target, edge_type, expected_roles) ==
    {s \in StakeholderIds :
        /\ links[<<s, target>>] = edge_type
        /\ g.stakeholders[s] # Absent
        /\ g.stakeholders[s] \in expected_roles}

\* The stakeholders with any edge into the decision or into the given
\* version node (lines 155-160).
linked_sources(g, d, v) ==
    {s \in StakeholderIds :
        \/ g.decision_link[<<s, d>>] # "none"
        \/ g.version_link[<<s, v>>] # "none"}

\* compute_routing_targets with amplify read from the contributes edges only.
compute_routing_targets_contributors_only(g, d, v) ==
    IF g.decisions[d] = Absent \/ g.versions[v] = Absent
    THEN [ok |-> FALSE, error |-> "NotFound",
          amplify |-> <<>>, inform |-> <<>>, restrict |-> <<>>]
    ELSE [ok |-> TRUE, error |-> "none",
          amplify |-> sorted_ids(
              stakeholders_for_edge(g, g.decision_link, d, "contributes",
                                    {"Contributor"})),
          inform |-> sorted_ids(
              stakeholders_for_edge(g, g.version_link, v, "informed_of",
                                    {"Informed"})
              \union stakeholders_for_edge(g, g.version_link, v, "affected_by",
                                           {"Affected"})),
          restrict |-> sorted_ids(
              {s \in linked_sources(g, d, v) : g.stakeholders[s] = "Observer"})]

\* stakeholders.compute_routing_targets
compute_routing_targets(g, d, v) ==
    IF g.decisions[d] = Absent \/ g.versions[v] = Absent
    THEN [ok |-> FALSE, error |-> "NotFound",
          amplify |-> <<>>, inform |-> <<>>, restrict |-> <<>>]
    ELSE [ok |-> TRUE, error |-> "none",
          amplify |-> sorted_ids(
              stakeholders_for_edge(g, g.decision_link, d, "owns", {"Owner"})
              \union stakeholders_for_edge(g, g.decision_link, d, "contributes",
                                           {"Contributor"})),
          inform |-> sorted_ids(
              stakeholders_for_edge(g, g.version_link, v, "informed_of",
                                    {"Informed"})
              \union stakeholders_for_edge(g, g.version_link, v, "affected_by",
                                           {"Affected"})),
          restrict |-> sorted_ids(
              {s \in linked_sources(g, d, v) : g.stakeholders[s] = "Observer"})]

\* ----------------------------------------------------------- MemoryAgent
\* MemoryAgent._upsert_decision: create the node if missing, then stamp
\* project_id on it.
upsert_decision(g, d) ==
    [add_decision(g, d) EXCEPT !.decisions[d] = "tagged"]

\* The previous latest as _upsert_decision_version reads it: None (NoVersion)
\* when resolution raises.
previous_latest_of(g, d) ==
    LET r == get_latest_decision_version(g, d)
    IN  IF r.status = "ok" THEN r.version ELSE NoVersion

\* _upsert_decision_version that forgets the supersedes edge.
upsert_decision_version_unlinked(g, d, v) ==
    IF g.versions[v] # Absent THEN g
    ELSE add_decision_version(g, v, d).g

\* MemoryAgent._upsert_decision_version: nothing is added when the version
\* node already exists, whichever decision owns it.
upsert_decision_version(g, d, v) ==
    IF g.versions[v] # Absent THEN g
    ELSE LET previous_latest == previous_latest_of(g, d)
             added == add_decision_version(g, v, d).g
         IN  IF previous_latest # NoVersion /\ previous_latest # v
             THEN [added EXCEPT !.supersedes = @ \union {<<v, previous_latest>>}]
             ELSE added

\* MemoryAgent._link_person: both links are attempted, a refusal is ignored.
link_person(g, s, d, v) ==
    link_stakeholder_to_version(link_stakeholder_to_decision(g, s, d).g, s, v).g

RECURSIVE upsert_and_link(_, _, _, _)
\* The participant loop of process_meeting / stamp_decision_and_route:
\* _upsert_stakeholder raises on an invalid role and ends the request there.
upsert_and_link(g, people, d, v) ==
    IF people = <<>> THEN Ok(g)
    ELSE LET person == Head(people)
             r == add_stakeholder(g, person.stakeholder_id, person.role)
         IN  IF ~r.ok THEN Fail(g)
             ELSE upsert_and_link(link_person(r.g, person.stakeholder_id, d, v),
                                  Tail(people), d, v)

RECURSIVE process_meeting(_, _, _)
\* MemoryAgent.process_meeting with a non-empty structured decision list.
process_meeting(g, decisions, participants) ==
    IF decisions = <<>> THEN Ok(g)
    ELSE LET e == Head(decisions)
             committed == upsert_decision_version(
                              upsert_decision(g, e.decision_id),
                              e.decision_id, e.version_id)
             r == upsert_and_link(committed, participants,
                                  e.decision_id, e.version_id)
         IN  IF ~r.ok THEN r
             ELSE process_meeting(r.g, Tail(decisions), participants)

\* MemoryAgent.stamp_decision_and_route: the graph it leaves and the
\* latest_version it reports.
stamp_decision_and_route(g, d, v, people) ==
    LET committed == upsert_decision_version(upsert_decision(g, d), d, v)
        r == upsert_and_link(committed, people, d, v)
    IN  [ok |-> r.ok, g |-> r.g, latest_version |-> v]

\* ------------------------------------------------------ project endpoints
\* _ensure_project_stakeholders_in_graph: every catalogued stakeholder is
\* upserted with its catalogued role.
ensure_project_stakeholders_in_graph(g) ==
    [g EXCEPT !.stakeholders =
        [s \in StakeholderIds |->
            IF s \in ProjectStakeholderIds THEN PROJECT_STAKEHOLDERS[s] ELSE @[s]]]

\* _safe_latest_version
safe_latest_version(g, d) == previous_latest_of(g, d)

\* The loop body that collects the popped id before it looks at seen.
pop_report_collecting_seen(reports_map, lookup, queue, seen, collected) ==
    LET stakeholder_id == Head(queue)
    IN  [queue |-> IF stakeholder_id \in seen THEN Tail(queue)
                   ELSE Tail(queue) \o reports_map[stakeholder_id],
         seen |-> seen \union {stakeholder_id},
         collected |-> IF stakeholder_id \in lookup
                       THEN Append(collected, stakeholder_id) ELSE collected]

\* _collect_downstream_stakeholders lines 395-402: one turn of the while
\* loop on a non-empty queue.
pop_report(reports_map, lookup, queue, seen, collected) ==
    LET stakeholder_id == Head(queue)
    IN  IF stakeholder_id \in seen
        THEN [queue |-> Tail(queue), seen |-> seen, collected |-> collected]
        ELSE [queue |-> Tail(queue) \o reports_map[stakeholder_id],
              seen |-> seen \union {stakeholder_id},
              collected |-> IF stakeholder_id \in lookup
                            THEN Append(collected, stakeholder_id)
                            ELSE collected]

RECURSIVE collect_downstream(_, _, _)
\* _collect_downstream_stakeholders: breadth-first over MANAGER_REPORTS.
collect_downstream(queue, seen, collected) ==
    IF queue = <<>> THEN collected
    ELSE LET turn == pop_report(MANAGER_REPORTS, ProjectStakeholderIds,
                                queue, seen, collected)
         IN  collect_downstream(turn.queue, turn.seen, turn.collected)

collect_downstream_stakeholders(manager) ==
    collect_downstream(MANAGER_REPORTS[manager], {}, <<>>)

\* _latest_version_ids_for_project: the decisions stamped with the project
\* whose latest version resolves.
latest_version_ids_for_project(g) ==
    [d \in {x \in DecisionIds :
               /\ g.decisions[x] = "tagged"
               /\ get_latest_decision_version(g, x).status = "ok"}
       |-> get_latest_decision_version(g, d).version]

\* _ack_latest_versions_for_stakeholders acknowledging the first resolved
\* decision only.
ack_latest_versions_for_first_decision(g, stakeholder_ids) ==
    LET latest == latest_version_ids_for_project(g)
    IN  [g EXCEPT !.referenced_by =
            @ \union {<<latest[d], s>> : d \in DOMAIN latest \ {"d2"},
                                         s \in {x \in stakeholder_ids :
                                                   g.stakeholders[x] # Absent}}]

\* _ack_latest_versions_for_stakeholders (after the ensure step): one
\* record_reference per resolved decision and stakeholder, refusals skipped.
ack_latest_versions_for_stakeholders(g, stakeholder_ids) ==
    LET latest == latest_version_ids_for_project(g)
    IN  [g EXCEPT !.referenced_by =
            @ \union {<<latest[d], s>> : d \in DOMAIN latest,
                                         s \in {x \in stakeholder_ids :
                                                   g.stakeholders[x] # Absent}}]

\* _mark_attendance_drift for one decision without the removal loop: the
\* absentees only gain the edge from the previous latest.
mark_attendance_drift_for_keeping(g, attendees, d, previous_version) ==
    IF previous_version = NoVersion THEN g
    ELSE LET absentees == ProjectStakeholderIds \ attendees
             readded == {<<previous_version, s>> : s \in
                            {x \in absentees :
                                record_reference(g, previous_version, x).ok}}
         IN  [g EXCEPT !.referenced_by = @ \union readded]

\* _mark_attendance_drift for one decision: every catalogued stakeholder who
\* did not attend loses its referenced_by edges from the decision's versions
\* and gets one from the previous latest.
mark_attendance_drift_for(g, attendees, d, previous_version) ==
    IF previous_version = NoVersion THEN g
    ELSE LET version_nodes == Range(version_nodes_of(g, d))
             absentees == ProjectStakeholderIds \ attendees
             removed == {e \in g.referenced_by :
                            ~(e[1] \in version_nodes
                              /\ e[2] \in absentees
                              /\ g.stakeholders[e[2]] # Absent)}
             readded == {<<previous_version, s>> : s \in
                            {x \in absentees :
                                record_reference(g, previous_version, x).ok}}
         IN  [g EXCEPT !.referenced_by = removed \union readded]

RECURSIVE mark_attendance_drift(_, _, _, _)
\* _mark_attendance_drift: the decisions of previous_versions in dict order.
mark_attendance_drift(g, attendees, decision_ids, previous_versions) ==
    IF decision_ids = <<>> THEN g
    ELSE mark_attendance_drift(
             mark_attendance_drift_for(g, attendees, Head(decision_ids),
                                       previous_versions[Head(decision_ids)]),
             attendees, Tail(decision_ids), previous_versions)

\* _record_attendee_acknowledgement
record_attendee_acknowledgement(g, attendees, v) ==
    [g EXCEPT !.referenced_by =
        @ \union {<<v, s>> : s \in {x \in attendees : record_reference(g, v, x).ok}}]

RECURSIVE acknowledge_all(_, _, _)
\* The closing loop of _approve_meeting over meeting["decisions"].
acknowledge_all(g, attendees, decisions) ==
    IF decisions = <<>> THEN g
    ELSE acknowledge_all(
             record_attendee_acknowledgement(g, attendees, Head(decisions).version_id),
             attendees, Tail(decisions))

RECURSIVE dict_keys(_, _)
\* The key order of the previous_versions dict: first occurrences.
dict_keys(decisions, seen) ==
    IF decisions = <<>> THEN <<>>
    ELSE LET d == Head(decisions).decision_id
         IN  IF d \in seen THEN dict_keys(Tail(decisions), seen)
             ELSE <<d>> \o dict_keys(Tail(decisions), seen \union {d})

attendee_ids(participants) ==
    {participants[i].stakeholder_id : i \in DOMAIN participants}

\* _approve_meeting: capture the previous latest of every listed decision,
\* commit through MemoryAgent, reconcile the absentees, acknowledge the
\* attendees.  A ValueError out of process_meeting ends it there.
approve_meeting(g, decisions, participants) ==
    LET previous_versions ==
            [d \in DecisionIds |-> safe_latest_version(g, d)]
        r == process_meeting(g, decisions, participants)
        attendees == attendee_ids(participants)
        marked == mark_attendance_drift(r.g, attendees,
                                        dict_keys(decisions, {}),
                                        previous_versions)
    IN  IF ~r.ok THEN r
        ELSE Ok(acknowledge_all(marked, attendees, decisions))

\* ------------------------------------------------------- alignment rollup
\* The department each person carries: the PROJECT_STAKEHOLDERS entry and
\* every MEETING_CATALOG participant entry of a person name the same one.
STAKEHOLDER_DEPARTMENT ==
    [s \in StakeholderIds |-> IF s = "s3" THEN "engineering" ELSE "product"]

\* _STATUS_PRIORITY
STATUS_PRIORITY == [out_of_sync |-> 3, awaiting_update |-> 2, aligned |-> 1]

\* _highest_status keeping the status met last.
highest_status_last_wins(first, second) == second

\* _highest_status
highest_status(first, second) ==
    IF STATUS_PRIORITY[first] >= STATUS_PRIORITY[second] THEN first ELSE second

\* _collect_references_for_decision: per stakeholder, the versions among
\* version_nodes with a referenced_by edge to it.
collect_references_for_decision(g, version_nodes) ==
    [s \in StakeholderIds |-> {v \in version_nodes : <<v, s>> \in g.referenced_by}]

\* The status ladder of _stakeholders_for_version (lines 593-601).
version_status(referenced, version_id, latest_version) ==
    IF latest_version \in referenced THEN "aligned"
    ELSE IF referenced # {} THEN "out_of_sync"
    ELSE IF version_id = latest_version THEN "awaiting_update"
    ELSE "aligned"

\* _stakeholders_for_version: the stakeholders with an owns/contributes edge
\* into the decision, an informed_of/affected_by edge into this version or a
\* referenced_by edge from this version, in id order, each with its status.
stakeholders_for_version(g, d, v, refs, latest_version) ==
    LET stakeholder_nodes ==
            {s \in StakeholderIds :
                \/ g.decision_link[<<s, d>>] \in {"owns", "contributes"}
                \/ g.version_link[<<s, v>>] \in {"informed_of", "affected_by"}
                \/ <<v, s>> \in g.referenced_by}
        ids == sorted_ids(stakeholder_nodes)
    IN  [i \in DOMAIN ids |->
            [id |-> ids[i],
             department |-> STAKEHOLDER_DEPARTMENT[ids[i]],
             status |-> version_status(refs[ids[i]], v, latest_version)]]

\* _decision_payload: "empty" stands for the {} of a decision without
\* versions, "raised" for the ValueError get_latest_decision_version lets
\* through.  The decision is drifting when some version lists a stakeholder
\* as out_of_sync.
decision_payload(g, d) ==
    LET version_nodes == Range(version_nodes_of(g, d))
        latest == get_latest_decision_version(g, d)
        refs == collect_references_for_decision(g, version_nodes)
        versions == [v \in version_nodes |->
                        stakeholders_for_version(g, d, v, refs, latest.version)]
        drifting == \E v \in version_nodes : \E i \in DOMAIN versions[v] :
                        versions[v][i].status = "out_of_sync"
    IN  IF version_nodes = {}
        THEN [kind |-> "empty", decision_id |-> d, status |-> "none",
              latest_version |-> NoVersion, versions |-> <<>>]
        ELSE IF latest.status # "ok"
        THEN [kind |-> "raised", decision_id |-> d, status |-> "none",
              latest_version |-> NoVersion, versions |-> <<>>]
        ELSE [kind |-> "payload", decision_id |-> d,
              status |-> IF drifting THEN "drifting" ELSE "active",
              latest_version |-> latest.version, versions |-> versions]

\* Python's sorted() on decision node ids.
DecisionOrder == <<"d1", "d2">>

\* get_project_decisions: the payloads of the decisions stamped with the
\* project, in node id order, after the catalogued stakeholders were upserted.
get_project_decisions(g) ==
    LET ensured == ensure_project_stakeholders_in_graph(g)
        decision_nodes ==
            SelectSeq(DecisionOrder, LAMBDA d : ensured.decisions[d] = "tagged")
        payloads == [i \in DOMAIN decision_nodes |->
                        decision_payload(ensured, decision_nodes[i])]
    IN  IF \E i \in DOMAIN payloads : payloads[i].kind = "raised"
        THEN [ok |-> FALSE, decisions |-> <<>>]
        ELSE [ok |-> TRUE,
              decisions |-> SelectSeq(payloads, LAMBDA x : x.kind = "payload")]

RECURSIVE merge_stakeholders(_, _)
\* _build_alignment_payload lines 773-789: the inner loop over the
\* stakeholders of a latest payload; by_stakeholder[s] = "none" stands for a
\* missing key.
merge_stakeholders(stakeholders, by_stakeholder) ==
    IF stakeholders = <<>> THEN by_stakeholder
    ELSE LET stakeholder == Head(stakeholders)
             existing == by_stakeholder[stakeholder.id]
         IN  merge_stakeholders(
                 Tail(stakeholders),
                 [by_stakeholder EXCEPT ![stakeholder.id] =
                     IF existing = "none" THEN stakeholder.status
                     ELSE highest_status(existing, stakeholder.status)])

RECURSIVE merge_decisions(_, _)
\* _build_alignment_payload lines 766-789: the loop over the decisions,
\* reading only the stakeholder list of each decision's latest version.
merge_decisions(decisions, by_stakeholder) ==
    IF decisions = <<>> THEN by_stakeholder
    ELSE LET decision == Head(decisions)
             latest_version == decision.latest_version
         IN  merge_decisions(
                 Tail(decisions),
                 IF latest_version \in DOMAIN decision.versions
                 THEN merge_stakeholders(decision.versions[latest_version],
                                         by_stakeholder)
                 ELSE by_stakeholder)

\* _department_status
department_status(statuses) ==
    IF "out_of_sync" \in statuses THEN "drifting"
    ELSE IF "awaiting_update" \in statuses THEN "awaiting_update"
    ELSE "aligned"

\* _build_alignment_payload: stakeholders[s] is the status of s ("none": s
\* is not listed), departments[x] the status of department x.
build_alignment_payload(g) ==
    LET fetched == get_project_decisions(g)
        merged == merge_decisions(fetched.decisions,
                                  [s \in StakeholderIds |-> "none"])
        by_stakeholder ==
            [s \in StakeholderIds |->
                IF merged[s] = "none" /\ s \in ProjectStakeholderIds
                THEN "awaiting_update" ELSE merged[s]]
        listed == {s \in StakeholderIds : by_stakeholder[s] # "none"}
        by_department ==
            [x \in {STAKEHOLDER_DEPARTMENT[s] : s \in listed} |->
                {s \in listed : STAKEHOLDER_DEPARTMENT[s] = x}]
        departments ==
            [x \in DOMAIN by_department |->
                department_status({by_stakeholder[s] : s \in by_department[x]})]
        drifting_departments ==
            {x \in DOMAIN departments : departments[x] = "drifting"}
    IN  [ok |-> fetched.ok,
         alignment_status |-> IF drifting_departments # {}
                              THEN "drift_detected" ELSE "aligned",
         out_of_sync_departments |-> drifting_departments,
         departments |-> departments,
         stakeholders |-> by_stakeholder,
         decisions |-> fetched.decisions]

\* review_meeting that runs the approval again on an approved meeting.
review_meeting_reapproving(g, current_state, action, decisions, participants) ==
    LET ensured == ensure_project_stakeholders_in_graph(g)
        r == approve_meeting(ensured, decisions, participants)
    IN  IF action = "deny" /\ current_state = "approved"
        THEN [ok |-> TRUE, g |-> ensured, state |-> "approved",
              status |-> "approved", locked |-> TRUE]
        ELSE IF action = "deny"
        THEN [ok |-> TRUE, g |-> ensured, state |-> "denied",
              status |-> "denied", locked |-> FALSE]
        ELSE IF r.ok
        THEN [ok |-> TRUE, g |-> r.g, state |-> "approved",
              status |-> "approved", locked |-> TRUE]
        ELSE [ok |-> FALSE, g |-> r.g, state |-> current_state,
              status |-> "error", locked |-> FALSE]

\* review_meeting for a catalogued meeting whose review state is
\* current_state: the graph and the review state it leaves, and the status
\* and locked fields of its response ("error": the request raised).
review_meeting(g, current_state, action, decisions, participants) ==
    LET ensured == ensure_project_stakeholders_in_graph(g)
        r == approve_meeting(ensured, decisions, participants)
    IN  IF current_state = "approved"
        THEN [ok |-> TRUE, g |-> ensured, state |-> "approved",
              status |-> "approved", locked |-> TRUE]
        ELSE IF action = "deny"
        THEN [ok |-> TRUE, g |-> ensured, state |-> "denied",
              status |-> "denied", locked |-> FALSE]
        ELSE IF r.ok
        THEN [ok |-> TRUE, g |-> r.g, state |-> "approved",
              status |-> "approved", locked |-> TRUE]
        ELSE [ok |-> FALSE, g |-> r.g, state |-> current_state,
              status |-> "error", locked |-> FALSE]

\* ---------------------------------------------------------------- state
\* What the last request was given, and the facts about the graph before it
\* that its contract refers to:
\*   entries    the <<decision, version>> pairs it was given
\*   committed  the pairs whose version node it created
\*   attendees  the stakeholder ids it was given
\*   previous   per decision, the latest version before the request
\*   reported   the latest_version a stamp request returned
\*   response   of a review request: the meeting and action it named, and
\*              the status and locked fields it answered with
NoResponse ==
    [meeting |-> "none", action |-> "none", status |-> "none", locked |-> FALSE]

entry_set(decisions) ==
    {<<decisions[i].decision_id, decisions[i].version_id>> : i \in DOMAIN decisions}

Request(op, r, g, decisions, attendees, reported) ==
    [op |-> op, ok |-> r.ok,
     entries |-> entry_set(decisions),
     committed |-> {e \in entry_set(decisions) :
                       /\ e[2] \in VersionIds
                       /\ g.versions[e[2]] = Absent
                       /\ r.g.versions[e[2]] = e[1]},
     attendees |-> attendees,
     previous |-> [d \in DecisionIds |-> safe_latest_version(g, d)],
     reported |-> reported,
     response |-> NoResponse]

\* A worker thread that is serving no request.
IdleThread ==
    [pc |-> "idle", decision_id |-> "none", version_id |-> NoVersion,
     previous_latest |-> NoVersion]

NothingObserved ==
    [op |-> "none", decision_id |-> "none",
     result |-> [status |-> "none", version |-> NoVersion, count |-> 0],
     pending |-> {}]

Init ==
    /\ graph = EmptyGraph
    /\ meetingState = [m \in MeetingIds |-> "pending"]
    /\ last = Request("none", Ok(EmptyGraph), EmptyGraph, <<>>, {}, NoVersion)
    /\ ops = 0
    /\ threads = [t \in ThreadIds |-> IdleThread]
    /\ observed = NothingObserved

\* --------------------------------------------------- GraphStore requests
Served(op, r, g, decisions, attendees, reported) ==
    /\ graph' = r.g
    /\ last' = Request(op, r, g, decisions, attendees, reported)
    /\ ops' = ops + 1
    /\ UNCHANGED <<threads, observed>>

AddDecision ==
    /\ ops < MaxStoreOps
    /\ \E d \in DecisionIds :
          Served("AddDecision", Ok(add_decision(graph, d)), graph,
                 <<Entry(d, NoVersion)>>, {}, NoVersion)
    /\ UNCHANGED meetingState

AddVersion ==
    /\ ops < MaxStoreOps
    /\ \E v \in VersionIds, d \in DecisionIds :
          Served("AddVersion", add_decision_version(graph, v, d), graph,
                 <<Entry(d, v)>>, {}, NoVersion)
    /\ UNCHANGED meetingState

AddSupersedes ==
    /\ ops < MaxStoreOps
    /\ \E new \in VersionIds, prev \in VersionIds :
          Served("AddSupersedes", link_supersedes(graph, new, prev), graph,
                 <<Entry("new", new), Entry("previous", prev)>>, {}, NoVersion)
    /\ UNCHANGED meetingState

UpsertStakeholder ==
    /\ ops < MaxStoreOps
    /\ \E s \in StakeholderIds, role \in RoleInputs :
          Served("UpsertStakeholder", add_stakeholder(graph, s, role), graph,
                 <<>>, {s}, NoVersion)
    /\ UNCHANGED meetingState

RecordReference ==
    /\ ops < MaxStoreOps
    /\ \E v \in VersionIds, s \in StakeholderIds :
          Served("RecordReference", record_reference(graph, v, s), graph,
                 <<Entry("version", v)>>, {s}, NoVersion)
    /\ UNCHANGED meetingState

NextStore ==
    \/ AddDecision
    \/ AddVersion
    \/ AddSupersedes
    \/ UpsertStakeholder
    \/ RecordReference

SpecStore == Init /\ [][NextStore]_vars

\* ---------------------------------------------------- MemoryAgent requests
\* The MCP tools process_meeting_update and stamp_decision_and_route.
ProcessMeeting ==
    /\ ops < MaxAgentOps
    /\ \E decisions \in DecisionLists, participants \in ParticipantLists :
          Served("ProcessMeeting",
                 process_meeting(graph, decisions, participants), graph,
                 decisions, attendee_ids(participants), NoVersion)
    /\ UNCHANGED meetingState

StampDecisionAndRoute ==
    /\ ops < MaxAgentOps
    /\ \E e \in Entries, people \in StampLists :
          LET r == stamp_decision_and_route(graph, e.decision_id,
                                            e.version_id, people)
          IN  Served("StampDecisionAndRoute", r, graph, <<e>>,
                     attendee_ids(people), r.latest_version)
    /\ UNCHANGED meetingState

NextAgent ==
    \/ ProcessMeeting
    \/ StampDecisionAndRoute

SpecAgent == Init /\ [][NextAgent]_vars

\* ------------------------------------------------------- project requests
\* A served review request: as Served, with the response recorded.
Reviewed(op, r, g, decisions, attendees, m, action) ==
    /\ graph' = r.g
    /\ last' = [Request(op, r, g, decisions, attendees, NoVersion)
                   EXCEPT !.response = [meeting |-> m, action |-> action,
                                        status |-> r.status,
                                        locked |-> r.locked]]
    /\ ops' = ops + 1
    /\ meetingState' = [meetingState EXCEPT ![m] = r.state]
    /\ UNCHANGED <<threads, observed>>

\* review_meeting with action "approve" on a meeting that is not approved.
ApproveMeeting ==
    /\ ops < MaxProjectOps
    /\ \E m \in MeetingIds, decisions \in DecisionLists :
          /\ meetingState[m] # "approved"
          /\ LET participants == MEETING_PARTICIPANTS[m]
                 ensured == ensure_project_stakeholders_in_graph(graph)
                 r == review_meeting(graph, meetingState[m], "approve",
                                     decisions, participants)
             IN  Reviewed("ApproveMeeting", r, ensured, decisions,
                          attendee_ids(participants), m, "approve")

\* review_meeting with action "deny" on a meeting that is not approved.
DenyMeeting ==
    /\ ops < MaxProjectOps
    /\ \E m \in MeetingIds :
          /\ meetingState[m] # "approved"
          /\ Reviewed("DenyMeeting",
                      review_meeting(graph, meetingState[m], "deny",
                                     <<>>, MEETING_PARTICIPANTS[m]),
                      graph, <<>>, {}, m, "deny")

\* review_meeting, either action, on an approved meeting.
ReviewApprovedMeeting ==
    /\ ops < MaxProjectOps
    /\ \E m \in MeetingIds, action \in {"approve", "deny"},
          decisions \in DecisionLists :
          /\ meetingState[m] = "approved"
          /\ Reviewed("ReviewApprovedMeeting",
                      review_meeting(graph, meetingState[m], action,
                                     decisions, MEETING_PARTICIPANTS[m]),
                      graph, <<>>, {}, m, action)

\* accept_latest_decisions by a catalogued stakeholder.
AcceptLatest ==
    /\ ops < MaxProjectOps
    /\ \E manager \in ProjectStakeholderIds, include_downstream \in BOOLEAN :
          LET downstream == IF include_downstream
                            THEN collect_downstream_stakeholders(manager)
                            ELSE <<>>
              stakeholder_ids == {manager} \union Range(downstream)
              ensured == ensure_project_stakeholders_in_graph(graph)
          IN  Served("AcceptLatest",
                     Ok(ack_latest_versions_for_stakeholders(ensured, stakeholder_ids)),
                     ensured, <<>>, stakeholder_ids, NoVersion)
    /\ UNCHANGED meetingState

NextProject ==
    \/ ApproveMeeting
    \/ DenyMeeting
    \/ ReviewApprovedMeeting
    \/ AcceptLatest
    \/ StampDecisionAndRoute

SpecProject == Init /\ [][NextProject]_vars

\* ------------------------------------------- graph and stakeholder calls
\* The decision_graph and stakeholders functions called directly, the way
\* tests/smoke_test_decision_drift.py does, on a shorter run.
GraphAddDecision ==
    /\ ops < MaxGraphOps
    /\ \E d \in DecisionIds :
          Served("AddDecision", Ok(add_decision(graph, d)), graph,
                 <<Entry(d, NoVersion)>>, {}, NoVersion)
    /\ UNCHANGED meetingState

GraphAddVersion ==
    /\ ops < MaxGraphOps
    /\ \E v \in VersionIds, d \in DecisionIds :
          Served("AddVersion", add_decision_version(graph, v, d), graph,
                 <<Entry(d, v)>>, {}, NoVersion)
    /\ UNCHANGED meetingState

GraphUpsertStakeholder ==
    /\ ops < MaxGraphOps
    /\ \E s \in StakeholderIds, role \in GraphRoleInputs :
          Served("UpsertStakeholder", add_stakeholder(graph, s, role), graph,
                 <<>>, {s}, NoVersion)
    /\ UNCHANGED meetingState

GraphAddStakeholder ==
    /\ ops < MaxGraphOps
    /\ \E s \in StakeholderIds, role \in GraphRoleInputs :
          Served("AddStakeholder", decision_graph_add_stakeholder(graph, s, role),
                 graph, <<>>, {s}, NoVersion)
    /\ UNCHANGED meetingState

GraphRecordReference ==
    /\ ops < MaxGraphOps
    /\ \E v \in VersionIds, s \in StakeholderIds :
          Served("RecordReference", record_reference(graph, v, s), graph,
                 <<Entry("version", v)>>, {s}, NoVersion)
    /\ UNCHANGED meetingState

LinkStakeholderToDecision ==
    /\ ops < MaxGraphOps
    /\ \E s \in StakeholderIds, d \in DecisionIds :
          Served("LinkStakeholderToDecision",
                 link_stakeholder_to_decision(graph, s, d), graph,
                 <<Entry(d, NoVersion)>>, {s}, NoVersion)
    /\ UNCHANGED meetingState

LinkStakeholderToVersion ==
    /\ ops < MaxGraphOps
    /\ \E s \in StakeholderIds, v \in VersionIds :
          Served("LinkStakeholderToVersion",
                 link_stakeholder_to_version(graph, s, v), graph,
                 <<Entry("version", v)>>, {s}, NoVersion)
    /\ UNCHANGED meetingState

NextGraph ==
    \/ GraphAddDecision
    \/ GraphAddVersion
    \/ GraphUpsertStakeholder
    \/ GraphAddStakeholder
    \/ GraphRecordReference
    \/ LinkStakeholderToDecision
    \/ LinkStakeholderToVersion

SpecGraph == Init /\ [][NextGraph]_vars

\* ------------------------------------------------------ concurrent commits
\* The request handlers are plain functions, so the server runs each request
\* on a worker thread, and get_project_graph hands every thread the same
\* DiGraph: its lock is released before the graph is returned.  A
\* stamp_decision_and_route request with no stakeholders is taken in the
\* steps between which another thread can run.

\* stamp_decision_and_route lines 291-293: fetch the graph, _upsert_decision.
BeginCommit(t) ==
    /\ ops < MaxConcurrentCommits
    /\ threads[t].pc = "idle"
    /\ \E e \in Entries :
          /\ graph' = upsert_decision(graph, e.decision_id)
          /\ threads' = [threads EXCEPT ![t] =
                            [pc |-> "check", decision_id |-> e.decision_id,
                             version_id |-> e.version_id,
                             previous_latest |-> NoVersion]]
    /\ ops' = ops + 1
    /\ UNCHANGED <<meetingState, last, observed>>

\* _upsert_decision_version lines 82-83: is the version node there already?
CheckVersion(t) ==
    /\ threads[t].pc = "check"
    /\ threads' = [threads EXCEPT ![t].pc =
                      IF graph.versions[threads[t].version_id] # Absent
                      THEN "tag" ELSE "resolve"]
    /\ UNCHANGED <<graph, meetingState, last, ops, observed>>

\* _upsert_decision_version lines 84-87: read the previous latest.
ReadPreviousLatest(t) ==
    /\ threads[t].pc = "resolve"
    /\ threads' = [threads EXCEPT
                      ![t].pc = "add",
                      ![t].previous_latest =
                          previous_latest_of(graph, threads[t].decision_id)]
    /\ UNCHANGED <<graph, meetingState, last, ops, observed>>

\* _upsert_decision_version lines 89-96: add_decision_version.
AddVersionNode(t) ==
    /\ threads[t].pc = "add"
    /\ graph' = add_decision_version(graph, threads[t].version_id,
                                     threads[t].decision_id).g
    /\ threads' = [threads EXCEPT ![t].pc = "supersede"]
    /\ UNCHANGED <<meetingState, last, ops, observed>>

\* Whether the thread still has a supersedes edge to add.
edge_pending(thread) ==
    /\ thread.pc = "supersede"
    /\ thread.previous_latest # NoVersion
    /\ thread.previous_latest # thread.version_id

\* _upsert_decision_version lines 98-99: the supersedes edge.
AddSupersedesEdge(t) ==
    /\ threads[t].pc = "supersede"
    /\ graph' = IF edge_pending(threads[t])
                 THEN [graph EXCEPT !.supersedes =
                          @ \union {<<threads[t].version_id,
                                      threads[t].previous_latest>>}]
                 ELSE graph
    /\ threads' = [threads EXCEPT ![t].pc = "tag"]
    /\ UNCHANGED <<meetingState, last, ops, observed>>

\* _upsert_decision_version line 101 and the rest of stamp_decision_and_route:
\* nothing else is written to the nodes and edges modelled here.
FinishCommit(t) ==
    /\ threads[t].pc = "tag"
    /\ threads' = [threads EXCEPT ![t] = IdleThread]
    /\ UNCHANGED <<graph, meetingState, last, ops, observed>>

\* A read request served by another thread: get_latest_decision_version on
\* the shared graph as it is at that moment.  pending lists the threads that
\* have added their version node and not yet its supersedes edge.
ReadLatest ==
    /\ \E d \in DecisionIds :
          observed' = [op |-> "ResolveLatest", decision_id |-> d,
                       result |-> get_latest_decision_version(graph, d),
                       pending |-> {t \in ThreadIds : edge_pending(threads[t])}]
    /\ UNCHANGED <<graph, meetingState, last, ops, threads>>

NextConcurrent ==
    \/ \E t \in ThreadIds : BeginCommit(t)
    \/ \E t \in ThreadIds : CheckVersion(t)
    \/ \E t \in ThreadIds : ReadPreviousLatest(t)
    \/ \E t \in ThreadIds : AddVersionNode(t)
    \/ \E t \in ThreadIds : AddSupersedesEdge(t)
    \/ \E t \in ThreadIds : FinishCommit(t)
    \/ ReadLatest

SpecConcurrent == Init /\ [][NextConcurrent]_vars

\* ------------------------------------------- Explain on a populated graph
\* The roles a stakeholder node is given: the five allowed ones and one
\* that decision_graph.add_stakeholder stores although it is not allowed
\* (the smoke test stores "Product" and "Infra").
ExplainRoles ==
    {"Owner", "Contributor", "Informed", "Affected", "Observer", "Guest"}

\* smoke_test_decision_drift lines 22-41: a decision with version 1 and
\* version 2, version 2 superseding version 1.
superseding_chain ==
    LET g0 == add_decision(EmptyGraph, "d1")
        g1 == add_decision_version(g0, 1, "d1").g
        g2 == add_decision_version(g1, 2, "d1").g
    IN  link_supersedes(g2, 2, 1).g

RECURSIVE with_stakeholders(_, _, _)
\* smoke_test_decision_drift lines 43-44: add_stakeholder for each listed
\* stakeholder that roles gives a role.
with_stakeholders(g, ids, roles) ==
    IF ids = <<>> THEN g
    ELSE with_stakeholders(
             IF roles[Head(ids)] = Absent THEN g
             ELSE decision_graph_add_stakeholder(g, Head(ids), roles[Head(ids)]).g,
             Tail(ids), roles)

RECURSIVE with_references(_, _)
\* smoke_test_decision_drift lines 45-46: record_reference for each pair of
\* refs; a pair naming a stakeholder that is not in the graph raises and
\* leaves the graph as it is.
with_references(g, refs) ==
    IF refs = {} THEN g
    ELSE LET e == CHOOSE x \in refs : TRUE
         IN  with_references(record_reference(g, e[1], e[2]).g, refs \ {e})

\* The populated graphs Explain is applied to.
populated_graph(roles, refs) ==
    with_references(with_stakeholders(superseding_chain, StakeholderOrder, roles),
                    refs)

InitExplain ==
    /\ \E roles \in [StakeholderIds -> ExplainRoles \union {Absent}],
          refs \in SUBSET ({1, 2} \X StakeholderIds) :
          graph = populated_graph(roles, refs)
    /\ meetingState = [m \in MeetingIds |-> "pending"]
    /\ last = Request("none", Ok(EmptyGraph), EmptyGraph, <<>>, {}, NoVersion)
    /\ ops = 0
    /\ threads = [t \in ThreadIds |-> IdleThread]
    /\ observed = NothingObserved

\* generate_drift_explanation called for a decision; the reply is observed.
ExplainDecision ==
    /\ \E d \in DecisionIds :
          observed' = [op |-> "Explain", decision_id |-> d,
                       result |-> generate_drift_explanation(graph, d),
                       pending |-> {}]
    /\ UNCHANGED <<graph, meetingState, last, ops, threads>>

NextExplain == ExplainDecision

SpecExplain == InitExplain /\ [][NextExplain]_vars

\* ------------------------------------------- downstream-report traversal
\* The direct-report lists a manager-reports map can give a stakeholder: up
\* to MaxReports ids in any order, the stakeholder itself included, no id
\* twice in one list.
ReportLists ==
    UNION {{list \in [1..n -> StakeholderIds] :
               \A i, j \in 1..n : list[i] = list[j] => i = j}
           : n \in 0..MaxReports}

NoTraversal ==
    [op |-> "none", manager |-> "none", queue |-> <<>>, seen |-> {},
     collected |-> <<>>, done |-> FALSE]

\* A request has not been made yet; the project's manager-reports map is
\* any map at all.
InitReports ==
    /\ graph = EmptyGraph
    /\ meetingState = [m \in MeetingIds |-> "pending"]
    /\ last = Request("none", Ok(EmptyGraph), EmptyGraph, <<>>, {}, NoVersion)
    /\ ops = 0
    /\ threads = [t \in ThreadIds |-> IdleThread]
    /\ \E reports_map \in [StakeholderIds -> ReportLists] :
          observed = [reports_map |-> reports_map] @@ NoTraversal

\* _collect_downstream_stakeholders lines 388-393, for a manager the
\* endpoint found among the project's stakeholders.
BeginTraversal ==
    /\ observed.op = "none"
    /\ \E manager \in ProjectStakeholderIds :
          observed' = [observed EXCEPT
                          !.op = "Reports", !.manager = manager,
                          !.queue = observed.reports_map[manager]]
    /\ UNCHANGED <<graph, meetingState, last, ops, threads>>

\* One turn of the while loop (lines 395-402).
PopReport ==
    /\ observed.op = "Reports" /\ ~observed.done
    /\ observed.queue # <<>>
    /\ LET turn == pop_report(observed.reports_map, ProjectStakeholderIds,
                              observed.queue, observed.seen, observed.collected)
       IN  observed' = [observed EXCEPT !.queue = turn.queue,
                                        !.seen = turn.seen,
                                        !.collected = turn.collected]
    /\ UNCHANGED <<graph, meetingState, last, ops, threads>>

\* The loop ends on the empty queue and the collected list is returned
\* (line 404).
ReturnReports ==
    /\ observed.op = "Reports" /\ ~observed.done
    /\ observed.queue = <<>>
    /\ observed' = [observed EXCEPT !.done = TRUE]
    /\ UNCHANGED <<graph, meetingState, last, ops, threads>>

NextReports == BeginTraversal \/ PopReport \/ ReturnReports

SpecReports == InitReports /\ [][NextReports]_vars

\* The handler runs on a worker thread that keeps being scheduled until it
\* returns.
FairSpecReports == SpecReports /\ WF_vars(PopReport) /\ WF_vars(ReturnReports)

\* --------------------------------------------- concurrent review requests
\* MEETING_CATALOG, decisions: m1 commits version 1 of d1, m2 version 2 of
\* d1, m3 version 1 of d2.
MEETING_DECISIONS ==
    [m \in MeetingIds |->
        CASE m = "m1" -> <<Entry("d1", 1)>>
          [] m = "m2" -> <<Entry("d1", 2)>>
          [] OTHER    -> <<Entry("d2", 1)>>]

\* A worker thread that is not serving a review request.
IdleReviewer ==
    [pc |-> "idle", meeting |-> "none", action |-> "none",
     current_state |-> "none"]

\* observed.applied[m] counts the runs of _approve_meeting for m that went
\* through.
InitReview ==
    /\ graph = EmptyGraph
    /\ meetingState = [m \in MeetingIds |-> "pending"]
    /\ last = Request("none", Ok(EmptyGraph), EmptyGraph, <<>>, {}, NoVersion)
    /\ ops = 0
    /\ threads = [t \in ThreadIds |-> IdleReviewer]
    /\ observed = [applied |-> [m \in MeetingIds |-> 0]]

\* review_meeting lines 895-904: the request is validated, the meeting
\* found, and the project's stakeholders written into the graph.
BeginReview(t) ==
    /\ ops < MaxConcurrentReviews
    /\ threads[t].pc = "idle"
    /\ \E m \in MeetingIds, action \in {"approve", "deny"} :
          threads' = [threads EXCEPT ![t] =
                         [pc |-> "read", meeting |-> m, action |-> action,
                          current_state |-> "none"]]
    /\ graph' = ensure_project_stakeholders_in_graph(graph)
    /\ ops' = ops + 1
    /\ UNCHANGED <<meetingState, last, observed>>

\* review_meeting line 905: _get_meeting_state, under _STATE_LOCK, which is
\* released when the state is returned.
ReadMeetingState(t) ==
    /\ threads[t].pc = "read"
    /\ threads' = [threads EXCEPT
                      ![t].pc = "act",
                      ![t].current_state = meetingState[threads[t].meeting]]
    /\ UNCHANGED <<graph, meetingState, last, ops, observed>>

\* review_meeting lines 907-914: the state that was read is approved.
ReturnLocked(t) ==
    /\ threads[t].pc = "act"
    /\ threads[t].current_state = "approved"
    /\ threads' = [threads EXCEPT ![t] = IdleReviewer]
    /\ UNCHANGED <<graph, meetingState, last, ops, observed>>

\* review_meeting lines 916-924: deny.
SetDenied(t) ==
    /\ threads[t].pc = "act"
    /\ threads[t].current_state # "approved"
    /\ threads[t].action = "deny"
    /\ meetingState' = [meetingState EXCEPT ![threads[t].meeting] = "denied"]
    /\ threads' = [threads EXCEPT ![t] = IdleReviewer]
    /\ UNCHANGED <<graph, last, ops, observed>>

\* review_meeting line 926: _approve_meeting on the shared graph, with the
\* state read at line 905; a ValueError ends the request.
RunApproval(t) ==
    /\ threads[t].pc = "act"
    /\ threads[t].current_state # "approved"
    /\ threads[t].action = "approve"
    /\ LET m == threads[t].meeting
           r == approve_meeting(graph, MEETING_DECISIONS[m],
                                MEETING_PARTICIPANTS[m])
       IN  /\ graph' = r.g
           /\ threads' = [threads EXCEPT ![t] =
                             IF r.ok THEN [@ EXCEPT !.pc = "set"]
                             ELSE IdleReviewer]
           /\ observed' = [observed EXCEPT !.applied[m] =
                              IF r.ok THEN @ + 1 ELSE @]
    /\ UNCHANGED <<meetingState, last, ops>>

\* review_meeting lines 927-934: _set_meeting_state(approved) and the reply.
SetApproved(t) ==
    /\ threads[t].pc = "set"
    /\ meetingState' = [meetingState EXCEPT ![threads[t].meeting] = "approved"]
    /\ threads' = [threads EXCEPT ![t] = IdleReviewer]
    /\ UNCHANGED <<graph, last, ops, observed>>

NextReview ==
    \/ \E t \in ThreadIds : BeginReview(t)
    \/ \E t \in ThreadIds : ReadMeetingState(t)
    \/ \E t \in ThreadIds : ReturnLocked(t)
    \/ \E t \in ThreadIds : SetDenied(t)
    \/ \E t \in ThreadIds : RunApproval(t)
    \/ \E t \in ThreadIds : SetApproved(t)

SpecReview == InitReview /\ [][NextReview]_vars

\* ================================================================ claims
\* The versions linked to d by has_version.
LinkedVersions(d) == Range(graph.has_version[d])

\* The versions d owns: linked by has_version and naming d as decision_id.
OwnedVersions(d) == {v \in LinkedVersions(d) : graph.versions[v] = d}

\* The versions of d that no version of d points at with a supersedes edge.
Candidates(d) ==
    {v \in LinkedVersions(d) :
        ~\E w \in LinkedVersions(d) : <<w, v>> \in graph.supersedes}

\* The orderings of a set of versions.
Orderings(S) ==
    {p \in [1..Cardinality(S) -> S] : \A i, j \in DOMAIN p : i # j => p[i] # p[j]}

\* p lists the versions of d as one supersession chain, oldest first.
LinearChain(d, p) ==
    /\ p \in Orderings(LinkedVersions(d))
    /\ {e \in graph.supersedes : e[1] \in LinkedVersions(d) /\ e[2] \in LinkedVersions(d)}
           = {<<p[i + 1], p[i]>> : i \in 1..(Len(p) - 1)}

ResolveLatest(d) == get_latest_decision_version(graph, d)
DetectDrift(d) == detect_decision_drift(graph, d)

\* The versions of d that stakeholder s holds a referenced_by edge from.
ReferencesOf(s, d) ==
    {v \in LinkedVersions(d) : <<v, s>> \in graph.referenced_by}

\* C1: after any sequence of MemoryAgent commits from the empty graph, every
\* decision with at least one version has exactly one version that no other
\* version of it supersedes, and ResolveLatest returns that version.
C1_LatestVersionInvariant ==
    \A d \in DecisionIds :
        LinkedVersions(d) # {} =>
            LET unsuperseded ==
                    {v \in LinkedVersions(d) :
                        ~\E w \in LinkedVersions(d) \ {v} :
                            <<w, v>> \in graph.supersedes}
            IN  /\ Cardinality(unsuperseded) = 1
                /\ ResolveLatest(d).status = "ok"
                /\ ResolveLatest(d).version \in unsuperseded

\* Three commits on one decision have been made, the last one by this request.
C1_Witness ==
    \E d \in DecisionIds :
        /\ Len(graph.has_version[d]) = 3
        /\ \E e \in last.committed : e[1] = d
        /\ last.op \in {"ProcessMeeting", "StampDecisionAndRoute"}

C3_ChainHeadResolved ==
    \A d \in DecisionIds :
        /\ \A p \in Orderings(LinkedVersions(d)) :
              (graph.decisions[d] # Absent /\ Len(p) > 0 /\ LinearChain(d, p)) =>
                  /\ ResolveLatest(d).status = "ok"
                  /\ ResolveLatest(d).version = p[Len(p)]
        /\ ResolveLatest(d).status = "ok" =>
              /\ ResolveLatest(d).version \in LinkedVersions(d)
              /\ ~\E w \in LinkedVersions(d) \ {ResolveLatest(d).version} :
                     <<w, ResolveLatest(d).version>> \in graph.supersedes

\* A chain of three versions whose head is not the version added last.
C3_Witness ==
    \E d \in DecisionIds :
        \E p \in Orderings(LinkedVersions(d)) :
            /\ Len(p) = 3
            /\ LinearChain(d, p)
            /\ p[3] # graph.has_version[d][3]
            /\ ResolveLatest(d).version = p[3]

\* C4: ResolveLatest fails with NotFound exactly for an absent decision, with
\* NoVersions exactly for an existing decision without versions, and with
\* AmbiguousLatest only for an existing decision that has versions.
C4_DistinctFailures ==
    \A d \in DecisionIds \union {"d0"} :
        LET r == get_latest_decision_version(graph, d)
            exists == d \in DecisionIds /\ graph.decisions[d] # Absent
            linked == IF d \in DecisionIds THEN LinkedVersions(d) ELSE {}
        IN  /\ r.status = "NotFound" <=> ~exists
            /\ r.status = "NoVersions" <=> (exists /\ linked = {})
            /\ r.status = "AmbiguousLatest" <=>
                   (exists /\ linked # {} /\ Cardinality(Candidates(d)) # 1)
            /\ r.status \in {"ok", "NotFound", "NoVersions", "AmbiguousLatest"}

\* The three failures side by side: an unknown id, a decision without
\* versions and a decision with a forked history.
C4_Witness ==
    \E d, e \in DecisionIds :
        /\ get_latest_decision_version(graph, "d0").status = "NotFound"
        /\ ResolveLatest(d).status = "NoVersions"
        /\ ResolveLatest(e).status = "AmbiguousLatest"

\* C5: for an existing decision, DetectDrift reports drift exactly when more
\* than one of the decision's versions is referenced by some stakeholder; when
\* every reference is to the latest version it reports none.
C5_DriftIffSeveralReferenced ==
    \A d \in DecisionIds :
        graph.decisions[d] # Absent =>
            LET referenced ==
                    {v \in OwnedVersions(d) :
                        \E s \in StakeholderIds : <<v, s>> \in graph.referenced_by}
            IN  /\ DetectDrift(d).drift_detected <=> Cardinality(referenced) > 1
                /\ (/\ ResolveLatest(d).status = "ok"
                    /\ referenced \subseteq {ResolveLatest(d).version}) =>
                        ~DetectDrift(d).drift_detected

\* A second version of a decision has just been referenced, so that drift is
\* reported with two referenced versions.
C5_Witness ==
    \E d \in DecisionIds :
        /\ last.op = "RecordReference"
        /\ DetectDrift(d).drift_detected
        /\ Len(DetectDrift(d).referenced_versions) = 2

\* The graph with the has_version edges of d inserted in the order p.
Reinserted(d, p) == [graph EXCEPT !.has_version[d] = p]

\* C6: DetectDrift gives the same driftDetected and the same
\* referencedVersions sequence on every graph that has the same nodes and
\* edges inserted in another order, and referencedVersions is sorted without
\* duplicates.
C6_DriftOrderIndependent ==
    \A d \in DecisionIds :
        LET drift == DetectDrift(d)
        IN  /\ \A i, j \in DOMAIN drift.referenced_versions :
                  i < j => drift.referenced_versions[i]
                               < drift.referenced_versions[j]
            /\ \A p \in Orderings(LinkedVersions(d)) :
                  LET other == detect_decision_drift(Reinserted(d, p), d)
                  IN  /\ other.drift_detected = drift.drift_detected
                      /\ other.referenced_versions = drift.referenced_versions

\* Two referenced versions that were added in descending order of id.
C6_Witness ==
    \E d \in DecisionIds :
        /\ Len(DetectDrift(d).referenced_versions) = 2
        /\ Len(graph.has_version[d]) = 2
        /\ graph.has_version[d][1] > graph.has_version[d][2]

\* C7: in the result of DetectDrift every stakeholder's list of referenced
\* version ids is sorted and free of duplicates.
C7_StakeholderVersionsSorted ==
    \A d \in DecisionIds :
        \A s \in DOMAIN DetectDrift(d).stakeholder_versions :
            IsSorted(DetectDrift(d).stakeholder_versions[s])

\* The approval the reconciliation claims speak of: a completed approve
\* review that created version v2 of decision d, whose latest was v1 before.
ApprovedCommit(d, v1, v2) ==
    /\ last.op = "ApproveMeeting"
    /\ last.ok
    /\ <<d, v2>> \in last.committed
    /\ v1 = last.previous[d]
    /\ v1 # NoVersion

\* C8: after such an approval every attendee holds a referenced_by edge from
\* v2 and none from v1.
C8_AttendeeMovesToNewVersion ==
    \A d \in DecisionIds, v1, v2 \in VersionIds :
        ApprovedCommit(d, v1, v2) =>
            \A a \in last.attendees :
                /\ <<v2, a>> \in graph.referenced_by
                /\ <<v1, a>> \notin graph.referenced_by

\* C9: after such an approval every catalogued stakeholder who did not attend
\* holds exactly one referenced_by edge among the decision's versions, the one
\* from v1, and so none from v2.
C9_AbsenteeKeepsPreviousVersion ==
    \A d \in DecisionIds, v1, v2 \in VersionIds :
        ApprovedCommit(d, v1, v2) =>
            \A s \in ProjectStakeholderIds \ last.attendees :
                /\ ReferencesOf(s, d) = {v1}
                /\ <<v2, s>> \notin graph.referenced_by

\* An approval created the third version of a decision and left an absentee
\* on the second.
C9_Witness ==
    \E d \in DecisionIds, s \in ProjectStakeholderIds :
        /\ ApprovedCommit(d, 2, 3)
        /\ s \notin last.attendees
        /\ ReferencesOf(s, d) = {2}
        /\ Len(graph.has_version[d]) = 3

\* C10: after a completed meeting approval or accept-latest, no stakeholder
\* holds more than one referenced_by edge among the versions of one decision.
C10_OneReferencePerDecision ==
    (last.op \in {"ApproveMeeting", "AcceptLatest"} /\ last.ok) =>
        \A s \in StakeholderIds, d \in DecisionIds :
            Cardinality(ReferencesOf(s, d)) <= 1

\* C11: a version node, once created, is never removed and never changes the
\* decision it belongs to (nor its content), whatever operation follows.
C11_VersionsAppendOnly ==
    [][\A v \in VersionIds :
          graph.versions[v] # Absent => graph'.versions[v] = graph.versions[v]]_vars

\* C12: every version node has exactly one incoming has_version edge, and it
\* comes from the decision the version's decision_id names.
C12_SingleOwningDecision ==
    \A v \in VersionIds :
        graph.versions[v] # Absent =>
            {d \in DecisionIds : v \in Range(graph.has_version[d])}
                = {graph.versions[v]}

\* C13: every supersedes edge joins two distinct versions of the same
\* decision.
C13_SupersedesWithinDecision ==
    \A e \in graph.supersedes :
        /\ e[1] # e[2]
        /\ graph.versions[e[1]] # Absent
        /\ graph.versions[e[1]] = graph.versions[e[2]]

\* C14: every stakeholder node carries one of the five roles, and each
\* stakeholder-adding operation refuses any other role with InvalidRole and
\* leaves the graph as it was.
C14_RolesStayValid ==
    /\ \A s \in StakeholderIds :
          graph.stakeholders[s] # Absent => graph.stakeholders[s] \in ALLOWED_ROLES
    /\ \A s \in StakeholderIds, role \in GraphRoleInputs \ ALLOWED_ROLES :
          add_stakeholder(graph, s, role) = Raise(graph, "InvalidRole")

\* What the link contract promises for a stakeholder of the given role:
\* the edge of the role's type, NotFound for a missing endpoint, and
\* InvalidRoleForEdge for every other role.
LinkOutcome(r, present, role, types, linked) ==
    IF ~present THEN r = Raise(graph, "NotFound")
    ELSE IF role \in DOMAIN types THEN r = Ok(linked[types[role]])
    ELSE r = Raise(graph, "InvalidRoleForEdge")

\* C15: LinkStakeholderToDecision adds owns for an Owner and contributes for
\* a Contributor, fails with NotFound on a missing endpoint and with
\* InvalidRoleForEdge for any other role, leaving the graph unchanged;
\* LinkStakeholderToVersion does the same with informed_of for Informed and
\* affected_by for Affected.
C15_LinksFollowRole ==
    /\ \A s \in StakeholderIds, d \in DecisionIds :
          LinkOutcome(link_stakeholder_to_decision(graph, s, d),
                      graph.stakeholders[s] # Absent /\ graph.decisions[d] # Absent,
                      graph.stakeholders[s],
                      [role \in {"Owner", "Contributor"} |->
                          IF role = "Owner" THEN "owns" ELSE "contributes"],
                      [type \in {"owns", "contributes"} |->
                          [graph EXCEPT !.decision_link[<<s, d>>] = type]])
    /\ \A s \in StakeholderIds, v \in VersionIds :
          LinkOutcome(link_stakeholder_to_version(graph, s, v),
                      graph.stakeholders[s] # Absent /\ graph.versions[v] # Absent,
                      graph.stakeholders[s],
                      [role \in {"Informed", "Affected"} |->
                          IF role = "Informed" THEN "informed_of" ELSE "affected_by"],
                      [type \in {"informed_of", "affected_by"} |->
                          [graph EXCEPT !.version_link[<<s, v>>] = type]])

\* C16: AddVersion for a missing decision, and RecordReference with a missing
\* version or a missing stakeholder, fail with NotFound and leave the graph
\* exactly as it was.
C16_NotFoundLeavesGraph ==
    /\ \A v \in VersionIds, d \in DecisionIds :
          graph.decisions[d] = Absent =>
              add_decision_version(graph, v, d) = Raise(graph, "NotFound")
    /\ \A v \in VersionIds, s \in StakeholderIds :
          (graph.versions[v] = Absent \/ graph.stakeholders[s] = Absent) =>
              record_reference(graph, v, s) = Raise(graph, "NotFound")

\* A RecordReference has just failed on a graph that already holds a version,
\* a stakeholder and a reference, while some decision is still missing.
C16_Witness ==
    /\ last.op = "RecordReference"
    /\ ~last.ok
    /\ graph.referenced_by # {}
    /\ \E d \in DecisionIds : graph.decisions[d] = Absent

\* C17: for an existing version v and an existing stakeholder s,
\* RecordReference(v, s) twice gives the same graph as once, and the second
\* call succeeds.
C17_RecordReferenceIdempotent ==
    \A v \in VersionIds, s \in StakeholderIds :
        (graph.versions[v] # Absent /\ graph.stakeholders[s] # Absent) =>
            LET once == record_reference(graph, v, s)
                twice == record_reference(once.g, v, s)
            IN  /\ once.ok
                /\ twice.ok
                /\ twice.g = once.g
                /\ once.g.referenced_by = graph.referenced_by \union {<<v, s>>}

\* A reference has just been recorded, so that the same call made again meets
\* the edge it would add.
C17_Witness ==
    /\ last.op = "RecordReference"
    /\ last.ok
    /\ \E v \in VersionIds, s \in last.attendees :
          /\ Entry("version", v) \in {Entry(e[1], e[2]) : e \in last.entries}
          /\ <<v, s>> \in graph.referenced_by

\* The zero result of DetectDrift.
ZeroDrift ==
    [drift_detected |-> FALSE, referenced_versions |-> <<>>,
     stakeholder_versions |-> <<>>]

\* C18: DetectDrift on a decision id that is not in the graph returns the
\* zero result instead of failing.
C18_AbsentDecisionZeroDrift ==
    \A d \in DecisionIds \union {"d0"} :
        (d \notin DecisionIds \/ graph.decisions[d] = Absent) =>
            detect_decision_drift(graph, d) = ZeroDrift

\* A decision is missing from a graph in which another decision has a
\* referenced version.
C18_Witness ==
    /\ \E d \in DecisionIds : graph.decisions[d] = Absent
    /\ \E d \in DecisionIds : DetectDrift(d).referenced_versions # <<>>

Explain(d) == generate_drift_explanation(graph, d)

\* C19: when the latest version does not resolve, Explain returns the
\* driftDetected of DetectDrift, no latest version, no out-of-sync
\* stakeholders and the fixed "could not be resolved" explanation.
C19_UnresolvedExplanation ==
    \A d \in DecisionIds \union {"d0"} :
        get_latest_decision_version(graph, d).status # "ok" =>
            Explain(d) =
                [drift_detected |-> detect_decision_drift(graph, d).drift_detected,
                 latest_version |-> NoVersion,
                 out_of_sync_stakeholders |-> <<>>,
                 explanation |-> [kind |-> "unresolved"]]

\* A forked decision whose two versions are both referenced: the latest is
\* ambiguous and drift is reported.
C19_Witness ==
    \E d \in DecisionIds :
        /\ ResolveLatest(d).status = "AmbiguousLatest"
        /\ DetectDrift(d).drift_detected
        /\ Explain(d).drift_detected

\* The versions of d that stakeholder s references, d owning them.
OwnedReferencesOf(s, d) ==
    {v \in OwnedVersions(d) : <<v, s>> \in graph.referenced_by}

\* The stakeholders that reference some version of d but not the version L.
OutOfSync(d, L) ==
    {s \in StakeholderIds :
        OwnedReferencesOf(s, d) # {} /\ L \notin OwnedReferencesOf(s, d)}

\* C20: when the latest version L resolves, Explain returns L and the sorted
\* list of exactly the stakeholders that reference some version of the
\* decision but not L; the out-of-sync Owners and Contributors appear in the
\* Owner/Contributor segment with the versions they reference.
C20_OutOfSyncExplained ==
    \A d \in DecisionIds :
        LET latest == ResolveLatest(d)
            L == latest.version
            explained == Explain(d)
            lagging == OutOfSync(d, L)
            primary == sorted_ids({s \in lagging :
                           graph.stakeholders[s] \in {"Owner", "Contributor"}})
        IN  latest.status = "ok" =>
                /\ explained.latest_version = L
                /\ Range(explained.out_of_sync_stakeholders) = lagging
                /\ explained.out_of_sync_stakeholders = sorted_ids(lagging)
                /\ lagging # {} =>
                      /\ explained.explanation.kind = "drift"
                      /\ explained.explanation.primary_out =
                             [i \in DOMAIN primary |->
                                 <<primary[i],
                                   Sorted(OwnedReferencesOf(primary[i], d))>>]

\* Version 2 supersedes version 1; Owner s1 references only version 1 and is
\* reported out of sync, while another stakeholder references version 2.
C20_Witness ==
    \E d \in DecisionIds :
        /\ ResolveLatest(d).status = "ok"
        /\ ResolveLatest(d).version = 2
        /\ graph.stakeholders["s1"] = "Owner"
        /\ Explain(d).out_of_sync_stakeholders = <<"s1">>
        /\ Explain(d).explanation.primary_out = << <<"s1", <<1>> >> >>
        /\ \E s \in StakeholderIds : <<2, s>> \in graph.referenced_by

\* ------------------------------------------------------------- routing
\* The versions of d: linked to it by has_version, or naming it as their
\* decision_id.
VersionsOf(d) ==
    LinkedVersions(d) \union {v \in VersionIds : graph.versions[v] = d}

ComputeRouting(d, v) == compute_routing_targets(graph, d, v)

\* C21: for every decision D, every version v of D and every stakeholder whose
\* role is Owner and who is linked to D by an owns edge, ComputeRouting(D, v)
\* succeeds and lists that stakeholder in amplify.
C21_OwnerAmplified ==
    \A d \in DecisionIds : \A v \in VersionsOf(d) :
        LET routing == ComputeRouting(d, v)
        IN  \A s \in StakeholderIds :
                (/\ graph.stakeholders[s] = "Owner"
                 /\ graph.decision_link[<<s, d>>] = "owns")
                    => /\ routing.ok
                       /\ s \in Range(routing.amplify)

\* An Owner owns a decision that has a version, and the routing of that
\* version amplifies to the Owner.
C21_Witness ==
    \E d \in DecisionIds : \E v \in VersionsOf(d) : \E s \in StakeholderIds :
        /\ graph.stakeholders[s] = "Owner"
        /\ graph.decision_link[<<s, d>>] = "owns"
        /\ s \in Range(ComputeRouting(d, v).amplify)

\* The stakeholders with an owns/contributes edge into d or an
\* informed_of/affected_by edge into any version of d.
LinkedAnywhere(d) ==
    {s \in StakeholderIds :
        \/ graph.decision_link[<<s, d>>] # "none"
        \/ \E w \in VersionsOf(d) : graph.version_link[<<s, w>>] # "none"}

\* C22: for every decision D and every version v of D, a stakeholder whose
\* current role is Observer and who is linked to D or to any version of D
\* (not only to v) appears in restrict of ComputeRouting(D, v).
C22_ObserverRestricted ==
    \A d \in DecisionIds : \A v \in VersionsOf(d) :
        LET routing == ComputeRouting(d, v)
        IN  \A s \in LinkedAnywhere(d) :
                graph.stakeholders[s] = "Observer"
                    => s \in Range(routing.restrict)

\* -------------------------------------------------- stamp_decision_and_route
\* C28: the latest_version returned by stamp_decision_and_route(decision,
\* version_id, ...) is the version ResolveLatest returns for that decision
\* right after the call, also when version_id already exists in the graph.
C28_StampReportsLatest ==
    (last.op = "StampDecisionAndRoute" /\ last.ok) =>
        \A e \in last.entries :
            /\ ResolveLatest(e[1]).status = "ok"
            /\ ResolveLatest(e[1]).version = last.reported

\* ------------------------------------------------------------ review state
\* C25: meeting approval is absorbing.  Once a meeting is approved no request
\* changes its review state, and every review request naming it, approve or
\* deny, answers status approved with locked = true and leaves the graph's
\* decisions, versions, has_version and supersedes edges and references as
\* they were.
C25_ApprovalAbsorbing ==
    [][\A m \in MeetingIds :
          meetingState[m] = "approved" =>
              /\ meetingState'[m] = "approved"
              /\ (ops' = ops + 1 /\ last'.response.meeting = m) =>
                     /\ last'.response.status = "approved"
                     /\ last'.response.locked
                     /\ graph'.decisions = graph.decisions
                     /\ graph'.versions = graph.versions
                     /\ graph'.has_version = graph.has_version
                     /\ graph'.supersedes = graph.supersedes
                     /\ graph'.referenced_by = graph.referenced_by]_vars

\* A deny request has just been answered for a meeting that is approved, in
\* a graph that holds a version and a reference.
C25_Witness ==
    /\ last.op = "ReviewApprovedMeeting"
    /\ last.response.action = "deny"
    /\ last.response.status = "approved"
    /\ meetingState[last.response.meeting] = "approved"
    /\ graph.referenced_by # {}

\* ------------------------------------------------------- alignment rollup
Alignment == build_alignment_payload(graph)

\* The project decisions whose latest version resolves.
ResolvedProjectDecisions ==
    {d \in DecisionIds : /\ graph.decisions[d] = "tagged"
                         /\ ResolveLatest(d).status = "ok"}

\* The stakeholders linked to d or to one of its versions by an ownership
\* edge, an informed_of/affected_by edge or a referenced_by edge.
LinkedToDecision(d) ==
    {s \in StakeholderIds :
        \/ graph.decision_link[<<s, d>>] # "none"
        \/ \E v \in LinkedVersions(d) :
              \/ graph.version_link[<<s, v>>] # "none"
              \/ <<v, s>> \in graph.referenced_by}

\* The status the rollup reads for s under decision payload p: the one in
\* the stakeholder list of p's latest version, "none" if s is not in it.
ClassifiedAs(p, s) ==
    LET listed == p.versions[p.latest_version]
    IN  IF \E i \in DOMAIN listed : listed[i].id = s
        THEN listed[CHOOSE i \in DOMAIN listed : listed[i].id = s].status
        ELSE "none"

\* C23: in the alignment rollup, for each project decision whose latest
\* version L resolves, every stakeholder linked to the decision or to one of
\* its versions is classified for that decision as aligned if its referenced
\* set for the decision contains L, as out_of_sync if the set is non-empty
\* without L, and as awaiting_update if the set is empty.
C23_LinkedStakeholdersClassified ==
    LET rollup == Alignment
    IN  rollup.ok =>
            \A i \in DOMAIN rollup.decisions :
                LET p == rollup.decisions[i]
                    d == p.decision_id
                    L == p.latest_version
                IN  \A s \in LinkedToDecision(d) :
                        LET referenced == ReferencesOf(s, d)
                        IN  ClassifiedAs(p, s) =
                                IF L \in referenced THEN "aligned"
                                ELSE IF referenced # {} THEN "out_of_sync"
                                ELSE "awaiting_update"

\* The statuses the latest payloads of the project decisions give s.
PerDecisionStatuses(rollup, s) ==
    {ClassifiedAs(rollup.decisions[i], s) : i \in DOMAIN rollup.decisions}
        \ {"none"}

Reverse(seq) == [i \in DOMAIN seq |-> seq[Len(seq) + 1 - i]]

\* C24: a stakeholder's overall status is the highest-priority one of its
\* per-decision statuses under out_of_sync(3) > awaiting_update(2) >
\* aligned(1), whichever order the decisions are visited in; a department is
\* drifting iff one of its stakeholders is out_of_sync, else awaiting_update
\* iff one is awaiting_update, else aligned; the project alignment_status is
\* drift_detected iff some department is drifting.
C24_HighestPriorityRollup ==
    LET rollup == Alignment
        none == [s \in StakeholderIds |-> "none"]
        forward == merge_decisions(rollup.decisions, none)
        backward == merge_decisions(Reverse(rollup.decisions), none)
        members(x) == {s \in StakeholderIds :
                          /\ rollup.stakeholders[s] # "none"
                          /\ STAKEHOLDER_DEPARTMENT[s] = x}
    IN  rollup.ok =>
            /\ forward = backward
            /\ \A s \in StakeholderIds :
                  LET statuses == PerDecisionStatuses(rollup, s)
                  IN  statuses # {} =>
                          /\ rollup.stakeholders[s] \in statuses
                          /\ \A t \in statuses :
                                STATUS_PRIORITY[rollup.stakeholders[s]] >=
                                    STATUS_PRIORITY[t]
            /\ \A x \in DOMAIN rollup.departments :
                  LET statuses == {rollup.stakeholders[s] : s \in members(x)}
                  IN  /\ rollup.departments[x] = "drifting"
                             <=> "out_of_sync" \in statuses
                      /\ rollup.departments[x] = "awaiting_update"
                             <=> /\ "out_of_sync" \notin statuses
                                 /\ "awaiting_update" \in statuses
                      /\ rollup.departments[x] = "aligned"
                             <=> statuses \subseteq {"aligned"}
            /\ rollup.alignment_status = "drift_detected"
                   <=> \E x \in DOMAIN rollup.departments :
                          rollup.departments[x] = "drifting"
            /\ rollup.alignment_status \in {"drift_detected", "aligned"}

\* A stakeholder is out_of_sync under one decision and has a lower status
\* under another; its overall status is out_of_sync and its department is
\* drifting.
C24_Witness ==
    LET rollup == Alignment
    IN  /\ rollup.ok
        /\ \E s \in StakeholderIds :
              /\ Cardinality(PerDecisionStatuses(rollup, s)) = 2
              /\ rollup.stakeholders[s] = "out_of_sync"
              /\ rollup.departments[STAKEHOLDER_DEPARTMENT[s]] = "drifting"
              /\ rollup.alignment_status = "drift_detected"

\* C26: after the approval of a meeting that commits a new version of a
\* decision which already had a latest version, every project stakeholder who
\* did not attend is out_of_sync in the alignment payload, its department is
\* drifting, the project alignment_status is drift_detected and the
\* decision's status is drifting.
C26_AbsenteesOutOfSync ==
    (last.op = "ApproveMeeting" /\ last.ok) =>
        \A e \in last.committed :
            last.previous[e[1]] # NoVersion =>
                LET rollup == Alignment
                    absentees == ProjectStakeholderIds \ last.attendees
                IN  /\ rollup.ok
                    /\ \A s \in absentees :
                          /\ rollup.stakeholders[s] = "out_of_sync"
                          /\ rollup.departments[STAKEHOLDER_DEPARTMENT[s]]
                                 = "drifting"
                    /\ absentees # {} =>
                          /\ rollup.alignment_status = "drift_detected"
                          /\ \E i \in DOMAIN rollup.decisions :
                                /\ rollup.decisions[i].decision_id = e[1]
                                /\ rollup.decisions[i].status = "drifting"

\* The manager's reports, direct and indirect, among the project's people.
RECURSIVE ReportsClosure(_)
ReportsClosure(S) ==
    LET next == S \union UNION {Range(MANAGER_REPORTS[s]) : s \in S}
    IN  IF next = S THEN S ELSE ReportsClosure(next)

TransitiveReports(M) ==
    (ReportsClosure(Range(MANAGER_REPORTS[M])) \ {M})
        \cap ProjectStakeholderIds

OutOfSyncIn(rollup) ==
    {s \in StakeholderIds : rollup.stakeholders[s] = "out_of_sync"}

\* C27: after stakeholder M accepts the latest decisions with
\* include_downstream, M and every transitive report of M hold a referenced_by
\* edge from the latest version of every project decision that resolves, none
\* of them is out_of_sync in the alignment payload, and if they were the only
\* out_of_sync stakeholders before, the alignment_status is aligned.
C27_AcceptLatestAligns ==
    [][(/\ ops' = ops + 1
        /\ last'.op = "AcceptLatest"
        /\ \E M \in ProjectStakeholderIds :
              last'.attendees = {M} \union TransitiveReports(M))
          => LET before == build_alignment_payload(graph)
                 after == build_alignment_payload(graph')
                 latest == latest_version_ids_for_project(graph')
             IN  /\ \A s \in last'.attendees :
                       /\ \A d \in DOMAIN latest :
                             <<latest[d], s>> \in graph'.referenced_by
                       /\ after.stakeholders[s] # "out_of_sync"
                 /\ (before.ok /\ OutOfSyncIn(before) \subseteq last'.attendees)
                       => /\ after.ok
                          /\ after.alignment_status = "aligned"]_vars

\* Manager s1 and its report s2 have just accepted; s1 still holds the stale
\* reference that had made it out_of_sync, and the project is aligned.
C27_Witness ==
    /\ last.op = "AcceptLatest"
    /\ last.attendees = {"s1", "s2"}
    /\ \E d \in DecisionIds :
          /\ ResolveLatest(d).status = "ok"
          /\ ResolveLatest(d).version \in ReferencesOf("s1", d)
          /\ Cardinality(ReferencesOf("s1", d)) = 2
    /\ Alignment.alignment_status = "aligned"

\* -------------------------------------------------------------- concurrency
\* C29: every graph mutation holds an exclusive lock on the project's graph
\* for its whole duration, so a read running concurrently never observes a
\* mutation half done: no read sees a new version whose supersedes edge is
\* still to be added, and a read of a decision never finds several latest
\* versions.
C29_ReadsSeeWholeMutations ==
    observed.op = "ResolveLatest" =>
        /\ observed.pending = {}
        /\ observed.result.status # "AmbiguousLatest"

\* The versions of d that no version of d supersedes.
Unsuperseded(d) ==
    {v \in LinkedVersions(d) :
        ~\E w \in LinkedVersions(d) \ {v} : <<w, v>> \in graph.supersedes}

\* C30: commits issued concurrently against one project are serialized: once
\* they have all returned, every decision with versions has exactly one
\* unsuperseded version, and no two versions supersede the same one.
C30_ConcurrentCommitsSerialized ==
    (\A t \in ThreadIds : threads[t].pc = "idle") =>
        \A d \in DecisionIds :
            /\ LinkedVersions(d) # {} => Cardinality(Unsuperseded(d)) = 1
            /\ \A v, w \in LinkedVersions(d) : \A u \in VersionIds :
                  (<<v, u>> \in graph.supersedes /\ <<w, u>> \in graph.supersedes)
                      => v = w

\* ------------------------------------------------------- routing, amplify
\* C32: for every decision D and version v, the amplify set of
\* ComputeRouting(D, v) is exactly the set of stakeholders with an owns or
\* contributes edge to D, whatever their current role is.
C32_AmplifyIgnoresCurrentRole ==
    \A d \in DecisionIds : \A v \in VersionsOf(d) :
        LET routing == ComputeRouting(d, v)
        IN  routing.ok =>
                Range(routing.amplify) =
                    {s \in StakeholderIds :
                        graph.decision_link[<<s, d>>] \in {"owns", "contributes"}}

\* ------------------------------------------------ reconciliation, frame
\* The versions of the decisions in D: linked from one of them by has_version
\* or carrying one of them as decision_id.
VersionsOfListed(g, D) ==
    {v \in VersionIds :
        \/ g.versions[v] \in D
        \/ \E d \in D : v \in Range(g.has_version[d])}

\* C34: approving a meeting adds or removes referenced_by edges only on
\* versions of the decisions listed in that meeting, the referenced_by edges
\* of every other decision are the same before and after, and for a listed
\* decision that had no version before the commit the non-attendees receive
\* no referenced_by edge.
C34_ReconciliationPerDecision ==
    [][(ops' = ops + 1 /\ last'.op = "ApproveMeeting" /\ last'.ok) =>
          LET listed == {e[1] : e \in last'.entries}
              touched == VersionsOfListed(graph', listed)
              changed == (graph.referenced_by \ graph'.referenced_by)
                             \union (graph'.referenced_by \ graph.referenced_by)
          IN  /\ \A e \in changed : e[1] \in touched
              /\ \A d \in listed :
                    graph.has_version[d] = <<>> =>
                        \A s \in ProjectStakeholderIds \ last'.attendees :
                            \A v \in VersionsOfListed(graph', {d}) :
                                <<v, s>> \notin graph'.referenced_by]_vars

\* ------------------------------------------------------------ deny, frame
\* C35: a deny review of a meeting that is not approved sets the meeting
\* state to denied with locked = false and leaves the project graph's nodes,
\* node attributes and edges as they were before the request.
C35_DenyLeavesGraph ==
    [][(ops' = ops + 1 /\ last'.op = "DenyMeeting") =>
          /\ last'.response.status = "denied"
          /\ ~last'.response.locked
          /\ meetingState'[last'.response.meeting] = "denied"
          /\ graph' = graph]_vars

\* ------------------------------------------------- drift flag, two sources
\* C36: for every decision whose latest version resolves, the drift_detected
\* flag of Explain equals the drift_detected flag of DetectDrift on the same
\* graph.
C36_ExplainFlagIsDetectDriftFlag ==
    \A d \in DecisionIds :
        ResolveLatest(d).status = "ok" =>
            Explain(d).drift_detected = DetectDrift(d).drift_detected

\* ------------------------------------------------------ two project views
\* C37: if the decisions payload reports status drifting for at least one
\* decision, the alignment payload reports alignment_status drift_detected
\* and lists at least one department as drifting.
C37_ViewsAgree ==
    LET rollup == Alignment
    IN  (/\ rollup.ok
         /\ \E i \in DOMAIN rollup.decisions :
               rollup.decisions[i].status = "drifting")
            => /\ rollup.alignment_status = "drift_detected"
               /\ rollup.out_of_sync_departments # {}

\* ------------------------------------------- version sets, two components
\* C38: for every decision, the versions ResolveLatest counts as candidates
\* are the versions whose references DetectDrift attributes to the decision,
\* also after a version id has been added under two decisions.
C38_SameVersionSets ==
    \A d \in DecisionIds :
        graph.decisions[d] # Absent =>
            Range(version_nodes_of(graph, d)) = Range(drift_version_nodes(graph, d))

\* ------------------------------------------------- explanation segments
FixedSegmentOrder ==
    <<"Owner/Contributor out-of-sync", "Owner/Contributor aligned",
      "Informed/Affected out-of-sync",
      "Observer references lagging (lower priority)">>

\* The stakeholders the segment with this label is about, for decision d
\* whose latest version is L.
SegmentMembers(label, d, L) ==
    LET referencing == {s \in StakeholderIds : OwnedReferencesOf(s, d) # {}}
        lagging == OutOfSync(d, L)
        with_role(S, roles) == {s \in S : graph.stakeholders[s] \in roles}
    IN  CASE label = FixedSegmentOrder[1] ->
                 with_role(lagging, {"Owner", "Contributor"})
          [] label = FixedSegmentOrder[2] ->
                 with_role(referencing \ lagging, {"Owner", "Contributor"})
          [] label = FixedSegmentOrder[3] ->
                 with_role(lagging, {"Informed", "Affected"})
          [] label = FixedSegmentOrder[4] ->
                 with_role(lagging, {"Observer"})

\* Ids in increasing order, none twice.
SortedIds(ids) ==
    \A i, j \in DOMAIN ids :
        i < j => \E a, b \in DOMAIN StakeholderOrder :
                     /\ a < b
                     /\ StakeholderOrder[a] = ids[i]
                     /\ StakeholderOrder[b] = ids[j]

\* C33: when Explain reports drift, the explanation holds only the non-empty
\* role segments, in the fixed order Owner/Contributor out-of-sync,
\* Owner/Contributor aligned, Informed/Affected out-of-sync, Observer
\* references lagging; the stakeholder ids inside each segment are sorted;
\* and the flat out-of-sync listing is used if and only if none of the four
\* segments is non-empty.
C33_SegmentsInFixedOrder ==
    (observed.op = "Explain" /\ observed.result.explanation.kind = "drift") =>
        LET d == observed.decision_id
            L == observed.result.latest_version
            explanation == observed.result.explanation
            segments == explanation.role_segments
            expected == SelectSeq(FixedSegmentOrder,
                                  LAMBDA label : SegmentMembers(label, d, L) # {})
        IN  /\ [i \in DOMAIN segments |-> segments[i].label] = expected
            /\ \A i \in DOMAIN segments :
                  /\ Range(segments[i].ids)
                         = SegmentMembers(segments[i].label, d, L)
                  /\ SortedIds(segments[i].ids)
            /\ (explanation.out_of_sync_details # <<>>) <=> (expected = <<>>)

\* Explain reported drift with two segments, the Owner/Contributor aligned
\* one after an out-of-sync segment that lists two stakeholders.
C33_Witness ==
    /\ observed.op = "Explain"
    /\ observed.result.explanation.kind = "drift"
    /\ Len(observed.result.explanation.role_segments) = 2
    /\ Len(observed.result.explanation.role_segments[1].ids) = 2
    /\ observed.result.explanation.role_segments[2].label
           = "Owner/Contributor aligned"

\* ------------------------------------------------- downstream traversal
\* The stakeholders reached from S by following reports_map any number of
\* times.
RECURSIVE ReachableReports(_, _)
ReachableReports(reports_map, S) ==
    LET next == S \union UNION {Range(reports_map[s]) : s \in S}
    IN  IF next = S THEN S ELSE ReachableReports(reports_map, next)

\* C39: the downstream-report traversal terminates for every manager-reports
\* map, maps with cycles or with a stakeholder reporting to several managers
\* included, and what it returns holds each transitive report known in the
\* project exactly once.
C39_TraversalTerminates ==
    /\ (observed.op = "Reports") ~> observed.done
    /\ [](observed.done =>
             LET reports == ReachableReports(
                                observed.reports_map,
                                Range(observed.reports_map[observed.manager]))
                 returned == observed.collected
             IN  /\ Range(returned) = reports \cap ProjectStakeholderIds
                 /\ \A i, j \in DOMAIN returned :
                       returned[i] = returned[j] => i = j)

\* The traversal returned on a map with a cycle through the manager and a
\* stakeholder who reports to several managers.
C39_Witness ==
    /\ observed.done
    /\ Len(observed.collected) = 2
    /\ observed.manager \in Range(observed.collected)
    /\ \E s \in StakeholderIds \ {observed.manager} :
          Cardinality({t \in StakeholderIds :
                          s \in Range(observed.reports_map[t])}) > 1

\* ---------------------------------------------- concurrent review, once
\* C31: when review requests approving the same pending meeting run
\* concurrently, the meeting's graph update is applied at most once, and no
\* interleaving leaves a project stakeholder who did not attend the meeting
\* referencing the version the meeting committed.
C31_ApprovalAppliedOnce ==
    \A m \in MeetingIds :
        /\ observed.applied[m] <= 1
        /\ observed.applied[m] >= 1 =>
              \A i \in DOMAIN MEETING_DECISIONS[m] :
                  \A s \in ProjectStakeholderIds
                               \ attendee_ids(MEETING_PARTICIPANTS[m]) :
                      <<MEETING_DECISIONS[m][i].version_id, s>>
                          \notin graph.referenced_by

====
